---- MODULE Spec2Model ----
(***************************************************************************)
(* Libsys (Django library management system): the account lockout engine,  *)
(* the session timeout middlewares and the borrowing workflow.             *)
(* Time is counted in seconds since the start of the run.                  *)
(***************************************************************************)
EXTENDS Integers, Sequences, FiniteSets, TLC

----------------------------------------------------------------------------
(* Bounds of the model *)

\* latest instant (seconds) the lockout runs reach
MaxAuthNow == 2100
\* cap on failed_login_attempts (an unbounded PositiveIntegerField)
MaxFailed == 7
\* latest instant (seconds) the session runs reach
MaxSessNow == 1020
\* number of Borrowing rows the borrowing runs create
MaxBorrowings == 2
\* latest day the borrowing runs reach
MaxBorrowDays == 4
\* latest day the expiry runs reach, and the seconds into a day they step
MaxExpiryDays == 4
MaxExpirySeconds == 1
\* most days overdue calculate_overdue_fine is asked about
MaxOverdueDays == 11
\* latest day the loan runs reach
MaxLoanDays == 28
\* number of Fine rows the loan runs create
MaxFines == 2
\* latest instant the password policy runs reach: 180 days and 90 seconds
MaxPolicyNow == 15552090
\* latest second of a day at which the password policy runs take a step
\* shorter than a day
MaxPolicySeconds == 90
\* the latest instant of the concurrent login runs: two lock durations
MaxRaceNow == 600
\* the latest instant of the settings runs: two lives of a cache entry
MaxSettingsNow == 600
\* latest instant of the lock administration runs, in seconds
MaxUnlockNow == 900
\* last day on which the lifecycle runs begin a step of four days
MaxLifecycleDays == 20
\* most Reservation rows of a run
MaxReservations == 2

----------------------------------------------------------------------------
(* Program constants *)

\* users/models.py:110  lock_settings.get('MAX_FAILED_ATTEMPTS', 5)
MAX_FAILED_ATTEMPTS == 5
\* users/models.py:111  lock_settings.get('LOCK_DURATION_MINUTES', 5)
LOCK_DURATION_MINUTES == 5
\* users/models.py:104  lock_settings.get('WARNING_THRESHOLD', 3)
WARNING_THRESHOLD == 3
\* users/models.py:112  lock_settings.get('AFFECTED_USER_ROLES', ['member'])
AFFECTED_USER_ROLES == {"member"}
\* admin_dashboard/auth_backends.py:108  getattr(user, 'max_failed_attempts', 5)
BACKEND_MAX_ATTEMPTS == 5
\* admin_dashboard/auth_backends.py:110  timedelta(minutes=30)
BACKEND_LOCK_MINUTES == 30
\* admin_dashboard/auth_backends.py:125  failed_login_attempts >= 3
BACKEND_SUSPICIOUS_ATTEMPTS == 3

\* admin_dashboard/middleware_optimized.py:14
SESSION_CHECK_CACHE_TIMEOUT == 60
\* admin_dashboard/middleware_optimized.py:15
TIMEOUT_CHECK_CACHE_TIMEOUT == 30
\* admin_dashboard/middleware.py:128  get_session_timeout_minutes(15)
DEFAULT_SESSION_TIMEOUT == 15

\* Python's None for a nullable DateTimeField
None == 0 - 1

\* datetime.timedelta(minutes=m), in seconds
Minutes(m) == m * 60

----------------------------------------------------------------------------
(* Accounts *)

AuthUsers == {"u1"}

\* User.ROLE_CHOICES (users/models.py:40-45)
Roles == {"member", "librarian", "manager", "admin"}

\* the roles the lockout runs give the account
AuthRoles == {"member", "admin"}

\* the lock fields of a freshly created User (users/models.py:52-54)
NewUser ==
    [failed_login_attempts |-> 0,
     account_locked_until  |-> None,
     last_failed_attempt   |-> None]

\* the AUTHENTICATION_BACKENDS a deployment may configure
BackendConfigs == {<<"model">>, <<"audit">>, <<"audit", "model">>}

VARIABLES
    now,        \* timezone.now()
    users,      \* the User rows: lock fields by username
    role,       \* User.role by username; no call here changes it
    backends,   \* settings.AUTHENTICATION_BACKENDS
    resp,       \* the last call and its outcome
    streak,     \* per user: length and time of the current run of direct
                \* increment_failed_attempts calls that began at (0, None)
    mw,         \* the session timeout middleware settings.MIDDLEWARE installs
    sess,       \* the sessions: login state and session['last_activity']
    rows,       \* the UserSession rows by session_key
    cache,      \* django.core.cache entries of the session user
    sresp,      \* the last request to the middleware and its outcome
    settings,   \* the SystemSetting table: whether it answers, value by key
    cresp,      \* the last configuration read and what it returned
    account,    \* the User row of the password policy runs
    psession,   \* that user's session: logged in, session['admin_login_time']
    presp,      \* the password policy call just answered and its outcome
    borrowings, \* the Borrowing rows, by id
    procs,      \* the librarians' requests in flight: place, locals, answer
    fines,      \* the Fine rows, by id
    extensions, \* the ExtensionRequest rows, by id
    reservations,
                \* the Reservation rows, by id
    sweep,       \* the expiry sweep just run and what it reported
    pmw,        \* the password policy middleware settings.MIDDLEWARE installs
    pcache,      \* the cache entry password_policy_{user.id} of the policy user
    logins,     \* the login_view requests in flight: place, user, password, copy
    evaluated,   \* per user: wrong passwords evaluated since the counter was reset
    scache,     \* the cache entry system_setting_{key} of the posted key
    reads       \* the get_setting calls in flight: place, value read, answer

authVars == <<users, role, backends, resp, streak>>
cfgVars == <<settings, cresp>>
polVars == <<account, psession, presp>>
sessVars == <<mw, sess, rows, cache, sresp, cfgVars, polVars>>
borrowVars == <<borrowings, procs>>
sweepVars == <<reservations, sweep>>
pcacheVars == <<pmw, pcache>>
raceVars == <<logins, evaluated>>
scacheVars == <<scache, reads>>
loanVars == <<fines, extensions, sweepVars, pcacheVars, raceVars, scacheVars>>
vars == <<now, users, role, backends, resp, streak,
          mw, sess, rows, cache, sresp, settings, cresp,
          account, psession, presp, borrowings, procs, fines, extensions,
          reservations, sweep,
          pmw, pcache,
          logins, evaluated,
          scache, reads>>

----------------------------------------------------------------------------
(* users/models.py: the methods of User *)

\* is_account_locked without the "still in the future" branch
IsAccountLockedNever(usr, t) ==
    IF usr.account_locked_until # None /\ ~(t < usr.account_locked_until)
    THEN [ret |-> FALSE,
          user |-> [usr EXCEPT !.account_locked_until = None,
                               !.failed_login_attempts = 0]]
    ELSE [ret |-> FALSE, user |-> usr]

\* is_account_locked whose lazy unlock forgets to zero the counter
IsAccountLockedKeepCount(usr, t) ==
    IF usr.account_locked_until # None
    THEN IF t < usr.account_locked_until
         THEN [ret |-> TRUE, user |-> usr]
         ELSE [ret |-> FALSE,
               user |-> [usr EXCEPT !.account_locked_until = None]]
    ELSE [ret |-> FALSE, user |-> usr]

\* User.is_account_locked: the answer and the object after the lazy unlock
IsAccountLocked(usr, t) ==
    IF usr.account_locked_until # None
    THEN IF t < usr.account_locked_until
         THEN [ret |-> TRUE, user |-> usr]
         ELSE [ret |-> FALSE,
               user |-> [usr EXCEPT !.account_locked_until = None,
                                    !.failed_login_attempts = 0]]
    ELSE [ret |-> FALSE, user |-> usr]

\* User.get_lock_remaining_seconds
GetLockRemainingSeconds(usr, t) ==
    LET chk == IsAccountLocked(usr, t)
    IN  IF chk.ret THEN usr.account_locked_until - t ELSE 0

\* User.should_show_warning
ShouldShowWarning(usr) == usr.failed_login_attempts >= WARNING_THRESHOLD

\* increment_failed_attempts that locks one attempt late (> for >=)
IncrementFailedAttemptsLate(usr, rl, t) ==
    IF rl \notin AFFECTED_USER_ROLES
    THEN usr
    ELSE LET n == usr.failed_login_attempts + 1
         IN  [usr EXCEPT
                !.failed_login_attempts = n,
                !.last_failed_attempt = t,
                !.account_locked_until =
                    IF n > MAX_FAILED_ATTEMPTS
                    THEN t + Minutes(LOCK_DURATION_MINUTES)
                    ELSE @]

\* increment_failed_attempts that leaves an existing lock alone
IncrementFailedAttemptsKeepLock(usr, rl, t) ==
    IF rl \notin AFFECTED_USER_ROLES
    THEN usr
    ELSE LET n == usr.failed_login_attempts + 1
         IN  [usr EXCEPT
                !.failed_login_attempts = n,
                !.last_failed_attempt = t,
                !.account_locked_until =
                    IF n >= MAX_FAILED_ATTEMPTS /\ @ = None
                    THEN t + Minutes(LOCK_DURATION_MINUTES)
                    ELSE @]

\* User.increment_failed_attempts: the object after the call
IncrementFailedAttempts(usr, rl, t) ==
    IF rl \notin AFFECTED_USER_ROLES
    THEN usr
    ELSE LET n == usr.failed_login_attempts + 1
         IN  [usr EXCEPT
                !.failed_login_attempts = n,
                !.last_failed_attempt = t,
                !.account_locked_until =
                    IF n >= MAX_FAILED_ATTEMPTS
                    THEN t + Minutes(LOCK_DURATION_MINUTES)
                    ELSE @]

\* reset_lock_status that keeps the counter ("for analytics")
ResetLockStatusKeepCount(usr) ==
    [usr EXCEPT !.account_locked_until = None]

\* User.reset_lock_status
ResetLockStatus(usr) ==
    [usr EXCEPT !.account_locked_until = None, !.failed_login_attempts = 0]

\* users/models.py:140  lock_settings.get('LOCK_DURATION_MINUTES', 30)
MANUAL_LOCK_DEFAULT_MINUTES == 30

\* User.lock_account_manually; duration None takes the configured default
LockAccountManually(usr, duration, t) ==
    LET d == IF duration = None THEN MANUAL_LOCK_DEFAULT_MINUTES ELSE duration
    IN  [usr EXCEPT !.account_locked_until = t + Minutes(d)]

----------------------------------------------------------------------------
(* admin_dashboard/auth_backends.py: LibraryManagementAuditAuthBackend *)

\* user_can_authenticate: the answer and the row after the lazy unlock
UserCanAuthenticate(usr, t) ==
    IF usr.account_locked_until # None
    THEN IF t < usr.account_locked_until
         THEN [ret |-> FALSE, user |-> usr]
         ELSE [ret |-> TRUE,
               user |-> [usr EXCEPT !.account_locked_until = None,
                                    !.failed_login_attempts = 0]]
    ELSE [ret |-> TRUE, user |-> usr]

\* _handle_failed_attempt: the row it saves
HandleFailedAttempt(usr, t) ==
    LET n == usr.failed_login_attempts + 1
    IN  [usr EXCEPT
           !.failed_login_attempts = n,
           !.account_locked_until =
               IF n >= BACKEND_MAX_ATTEMPTS
               THEN t + Minutes(BACKEND_LOCK_MINUTES)
               ELSE @]

\* _reset_failed_attempts: the row after a successful login
ResetFailedAttempts(usr) ==
    IF usr.failed_login_attempts > 0
    THEN [usr EXCEPT !.failed_login_attempts = 0,
                     !.account_locked_until = None]
    ELSE usr

\* authenticate: ok and the row left in the database
AuditBackendAuthenticate(row, pw, t) ==
    IF pw
    THEN LET can == UserCanAuthenticate(row, t)
         IN  IF can.ret
             THEN [ok |-> TRUE, db |-> ResetFailedAttempts(can.user)]
             ELSE [ok |-> FALSE, db |-> HandleFailedAttempt(can.user, t)]
    ELSE [ok |-> FALSE, db |-> HandleFailedAttempt(row, t)]

\* django.contrib.auth.backends.ModelBackend.authenticate, named by login()
ModelBackendAuthenticate(row, pw) == [ok |-> pw, db |-> row]

\* django.contrib.auth.authenticate: the first backend that accepts
RECURSIVE Authenticate(_, _, _, _)
Authenticate(bs, row, pw, t) ==
    IF bs = <<>>
    THEN [ok |-> FALSE, db |-> row]
    ELSE LET r == IF Head(bs) = "audit"
                  THEN AuditBackendAuthenticate(row, pw, t)
                  ELSE ModelBackendAuthenticate(row, pw)
         IN  IF r.ok THEN r ELSE Authenticate(Tail(bs), r.db, pw, t)

\* the audit records authenticate writes: _log_successful_login, or
\* _log_failed_login followed by what _handle_failed_attempt logs
AuditBackendAudits(row, pw, t) ==
    IF pw /\ UserCanAuthenticate(row, t).ret
    THEN <<"LOGIN_SUCCESS">>
    ELSE LET usr == IF pw THEN UserCanAuthenticate(row, t).user ELSE row
             n == usr.failed_login_attempts + 1
         IN  <<"LOGIN_FAILED">> \o
             (IF n >= BACKEND_MAX_ATTEMPTS THEN <<"ACCOUNT_LOCKED">>
              ELSE IF n >= BACKEND_SUSPICIOUS_ATTEMPTS
                   THEN <<"MULTIPLE_LOGIN_FAILURES">>
                   ELSE <<>>)

\* the audit records of django.contrib.auth.authenticate: ModelBackend
\* writes none
RECURSIVE AuthenticateAudits(_, _, _, _)
AuthenticateAudits(bs, row, pw, t) ==
    IF bs = <<>>
    THEN <<>>
    ELSE IF Head(bs) = "audit"
         THEN AuditBackendAudits(row, pw, t) \o
              (IF AuditBackendAuthenticate(row, pw, t).ok THEN <<>>
               ELSE AuthenticateAudits(Tail(bs),
                        AuditBackendAuthenticate(row, pw, t).db, pw, t))
         ELSE IF ModelBackendAuthenticate(row, pw).ok THEN <<>>
              ELSE AuthenticateAudits(Tail(bs), row, pw, t)

\* the rows authenticate saves, in order: the lazy unlock of
\* user_can_authenticate, then _reset_failed_attempts, or the one or two
\* saves of _handle_failed_attempt
AuditBackendSaves(row, pw, t) ==
    LET usr == IF pw THEN UserCanAuthenticate(row, t).user ELSE row
        unlocks == IF usr # row THEN <<usr>> ELSE <<>>
    IN  IF pw /\ UserCanAuthenticate(row, t).ret
        THEN unlocks \o (IF usr.failed_login_attempts > 0
                         THEN <<ResetFailedAttempts(usr)>> ELSE <<>>)
        ELSE unlocks \o
             (IF usr.failed_login_attempts + 1 >= BACKEND_MAX_ATTEMPTS
              THEN <<HandleFailedAttempt(usr, t), HandleFailedAttempt(usr, t)>>
              ELSE <<HandleFailedAttempt(usr, t)>>)

\* the rows django.contrib.auth.authenticate saves: ModelBackend saves none
RECURSIVE AuthenticateSaves(_, _, _, _)
AuthenticateSaves(bs, row, pw, t) ==
    IF bs = <<>>
    THEN <<>>
    ELSE IF Head(bs) = "audit"
         THEN AuditBackendSaves(row, pw, t) \o
              (IF AuditBackendAuthenticate(row, pw, t).ok THEN <<>>
               ELSE AuthenticateSaves(Tail(bs),
                        AuditBackendAuthenticate(row, pw, t).db, pw, t))
         ELSE IF ModelBackendAuthenticate(row, pw).ok THEN <<>>
              ELSE AuthenticateSaves(Tail(bs), row, pw, t)

----------------------------------------------------------------------------
(* users/views.py: login_view *)

\* the outcome of one POST to login_view: the row left in the database,
\* whether a user was logged in, and the message shown
LoginViewOutcome(row, rl, bs, pw, t) ==
    LET chk == IsAccountLocked(row, t)
    IN  IF chk.ret
        THEN [db |-> chk.user, ok |-> FALSE, msg |-> "locked",
              remaining |-> GetLockRemainingSeconds(chk.user, t)]
        ELSE LET auth == Authenticate(bs, chk.user, pw, t)
             IN  IF auth.ok
                 THEN [db |-> ResetLockStatus(auth.db), ok |-> TRUE,
                       msg |-> "welcome", remaining |-> 0]
                 ELSE LET obj == IncrementFailedAttempts(chk.user, rl, t)
                          lck == IsAccountLocked(obj, t)
                          db2 == IF rl \in AFFECTED_USER_ROLES
                                 THEN obj ELSE auth.db
                      IN  IF ShouldShowWarning(obj) /\ ~lck.ret
                          THEN [db |-> db2, ok |-> FALSE, msg |-> "warning",
                                remaining |-> 0]
                          ELSE IF lck.ret
                               THEN [db |-> db2, ok |-> FALSE,
                                     msg |-> "locked_now",
                                     remaining |->
                                        GetLockRemainingSeconds(obj, t)]
                               ELSE [db |-> db2, ok |-> FALSE,
                                     msg |-> "invalid", remaining |-> 0]

\* the audit records of one POST to login_view: those of authenticate, and
\* the one log_user_login writes when login() sends user_logged_in; the
\* model's lock methods and login_view itself write none
LoginViewAudits(row, rl, bs, pw, t) ==
    IF IsAccountLocked(row, t).ret
    THEN <<>>
    ELSE AuthenticateAudits(bs, IsAccountLocked(row, t).user, pw, t) \o
         (IF Authenticate(bs, IsAccountLocked(row, t).user, pw, t).ok
          THEN <<"LOGIN_SUCCESS">>
          ELSE <<>>)

\* the rows one POST to login_view saves, in order: the lazy unlock of
\* is_account_locked, the saves of authenticate, then reset_lock_status
\* before login(), or increment_failed_attempts for an affected role
LoginViewSaves(row, rl, bs, pw, t) ==
    LET chk == IsAccountLocked(row, t)
    IN  IF chk.ret
        THEN <<>>
        ELSE (IF chk.user # row THEN <<chk.user>> ELSE <<>>) \o
             AuthenticateSaves(bs, chk.user, pw, t) \o
             (IF Authenticate(bs, chk.user, pw, t).ok
              THEN <<ResetLockStatus(Authenticate(bs, chk.user, pw, t).db)>>
              ELSE IF rl \in AFFECTED_USER_ROLES
                   THEN <<IncrementFailedAttempts(chk.user, rl, t)>>
                   ELSE <<>>)

\* login_view with a try/except around reset_lock_status that lets the
\* login go on when the save fails
LoginViewFailingSwallowed(row, rl, bs, pw, t, failAt) ==
    LET saves == LoginViewSaves(row, rl, bs, pw, t)
        out == LoginViewOutcome(row, rl, bs, pw, t)
    IN  IF failAt = 0 \/ failAt > Len(saves)
        THEN [db |-> out.db, ok |-> out.ok, msg |-> out.msg, raised |-> FALSE]
        ELSE [db |-> IF failAt = 1 THEN row ELSE saves[failAt - 1],
              ok |-> out.ok /\ failAt = Len(saves),
              msg |-> IF out.ok /\ failAt = Len(saves) THEN out.msg
                      ELSE "server_error",
              raised |-> TRUE]

\* one POST to login_view when the save numbered failAt raises (0: none
\* does): no save is inside a try, the exception leaves the view before
\* login(), the saves before it stay in the database
LoginViewFailing(row, rl, bs, pw, t, failAt) ==
    LET saves == LoginViewSaves(row, rl, bs, pw, t)
        out == LoginViewOutcome(row, rl, bs, pw, t)
    IN  IF failAt = 0 \/ failAt > Len(saves)
        THEN [db |-> out.db, ok |-> out.ok, msg |-> out.msg, raised |-> FALSE]
        ELSE [db |-> IF failAt = 1 THEN row ELSE saves[failAt - 1],
              ok |-> FALSE, msg |-> "server_error", raised |-> TRUE]

----------------------------------------------------------------------------
(* The calls *)

\* how the lock of a row stands at time t, before any lazy unlock
LockState(usr, t) ==
    IF usr.account_locked_until = None THEN "none"
    ELSE IF t < usr.account_locked_until THEN "locked" ELSE "expired"

\* the record of a call: the operation, the account, whether the password
\* was right, what it returned (authenticated / locked), the message shown
\* and how the account's lock stood when the call began
Resp(op, u, pw, ret, msg) ==
    [op |-> op, u |-> u, pw |-> pw, ret |-> ret, msg |-> msg,
     pre |-> IF u \in AuthUsers THEN LockState(users[u], now) ELSE "none"]

\* the run of direct increment_failed_attempts calls after a step on u
StreakAfter(u, isIncrement, row) ==
    IF isIncrement /\ streak[u].n >= 0
    THEN [n |-> streak[u].n + 1, at |-> now]
    ELSE IF row.failed_login_attempts = 0 /\ row.account_locked_until = None
         THEN [n |-> 0, at |-> None]
         ELSE [n |-> 0 - 1, at |-> None]

\* a direct call of user.increment_failed_attempts()
IncrementCall(u) ==
    /\ users[u].failed_login_attempts < MaxFailed
    /\ streak[u].n < MaxFailed
    /\ LET row == IncrementFailedAttempts(users[u], role[u], now)
       IN  /\ users' = [users EXCEPT ![u] = row]
           /\ streak' = [streak EXCEPT ![u] = StreakAfter(u, TRUE, row)]
    /\ resp' = Resp("increment_failed_attempts", u, FALSE, FALSE, "")
    /\ UNCHANGED <<now, role, backends, sessVars, borrowVars, loanVars>>

\* a direct call of user.is_account_locked()
IsLockedCall(u) ==
    /\ LET chk == IsAccountLocked(users[u], now)
       IN  /\ users' = [users EXCEPT ![u] = chk.user]
           /\ streak' = [streak EXCEPT ![u] = StreakAfter(u, FALSE, chk.user)]
           /\ resp' = Resp("is_account_locked", u, FALSE, chk.ret, "")
    /\ UNCHANGED <<now, role, backends, sessVars, borrowVars, loanVars>>

\* a POST to login_view with the right (pw) or a wrong password
LoginView(u, pw) ==
    /\ users[u].failed_login_attempts < MaxFailed
    /\ LET out == LoginViewOutcome(users[u], role[u], backends, pw, now)
       IN  /\ users' = [users EXCEPT ![u] = out.db]
           /\ streak' = [streak EXCEPT ![u] = StreakAfter(u, FALSE, out.db)]
           /\ resp' = Resp("login_view", u, pw, out.ok, out.msg)
    /\ UNCHANGED <<now, role, backends, sessVars, borrowVars, loanVars>>

\* a call of the audit backend's authenticate()
BackendAuthenticate(u, pw) ==
    /\ \E i \in DOMAIN backends : backends[i] = "audit"
    /\ users[u].failed_login_attempts < MaxFailed
    /\ LET out == AuditBackendAuthenticate(users[u], pw, now)
       IN  /\ users' = [users EXCEPT ![u] = out.db]
           /\ streak' = [streak EXCEPT ![u] = StreakAfter(u, FALSE, out.db)]
           /\ resp' = Resp("backend_authenticate", u, pw, out.ok, "")
    /\ UNCHANGED <<now, role, backends, sessVars, borrowVars, loanVars>>

\* which save of a request raises: none, or the first, second or third
FailPoints == 0 .. 3

\* a POST to login_view while the database refuses the save numbered failAt
LoginViewSaveFails(u, pw, failAt) ==
    /\ users[u].failed_login_attempts < MaxFailed
    /\ LET out == LoginViewFailing(users[u], role[u], backends, pw, now,
                                   failAt)
       IN  /\ users' = [users EXCEPT ![u] = out.db]
           /\ streak' = [streak EXCEPT ![u] = StreakAfter(u, FALSE, out.db)]
           /\ resp' = [op |-> "login_view", u |-> u, pw |-> pw,
                       ret |-> out.ok, msg |-> out.msg,
                       pre |-> LockState(users[u], now),
                       raised |-> out.raised, failAt |-> failAt]
    /\ UNCHANGED <<now, role, backends, sessVars, borrowVars, loanVars>>

\* the duration_minutes an admin posts to unlock_accounts (None: left empty)
LockDurations == {None, 10}

\* users/views.py unlock_accounts, POST action=lock by an admin
ManualLock(u, duration) ==
    /\ LET row == LockAccountManually(users[u], duration, now)
       IN  /\ users' = [users EXCEPT ![u] = row]
           /\ streak' = [streak EXCEPT ![u] = StreakAfter(u, FALSE, row)]
    /\ resp' = Resp("lock_account_manually", u, FALSE, FALSE, "")
    /\ UNCHANGED <<now, role, backends, sessVars, borrowVars, loanVars>>

\* users/views.py unlock_accounts, POST action=unlock (and user_list)
ManualUnlock(u) ==
    /\ LET row == ResetLockStatus(users[u])
       IN  /\ users' = [users EXCEPT ![u] = row]
           /\ streak' = [streak EXCEPT ![u] = StreakAfter(u, FALSE, row)]
    /\ resp' = Resp("reset_lock_status", u, FALSE, FALSE, "")
    /\ UNCHANGED <<now, role, backends, sessVars, borrowVars, loanVars>>

\* the duration_minutes field of the lock form as it is posted
PostedDurations == {"", "10", "0", "abc"}

\* users/views.py:586-588  int(duration_minutes) if duration_minutes else
\* None, a ValueError giving None
ParseDuration(s) ==
    IF s = "" THEN None
    ELSE IF s = "10" THEN 10
    ELSE IF s = "0" THEN 0
    ELSE None

\* the action field of a POST to unlock_accounts
PostedActions == {"unlock", "lock", "export"}

\* the row unlock_accounts leaves for POST action by a user of role actor
UnlockAccountsRow(usr, actor, action, posted, t) ==
    IF actor \notin {"manager", "admin"} THEN usr
    ELSE IF action = "unlock" THEN ResetLockStatus(usr)
    ELSE IF action = "lock" /\ actor = "admin"
         THEN LockAccountManually(usr, ParseDuration(posted), t)
         ELSE usr

\* what unlock_accounts answers
UnlockAccountsMessage(actor, action) ==
    IF actor \notin {"manager", "admin"} THEN "forbidden"
    ELSE IF action = "unlock" THEN "unlocked"
    ELSE IF action = "lock" /\ actor = "admin" THEN "locked"
    ELSE "invalid_action"

\* users/views.py unlock_accounts: a POST with user_id = u by a logged-in
\* user of role actor
UnlockAccounts(actor, action, u, posted) ==
    /\ LET row == UnlockAccountsRow(users[u], actor, action, posted, now)
       IN  /\ users' = [users EXCEPT ![u] = row]
           /\ streak' = [streak EXCEPT ![u] = StreakAfter(u, FALSE, row)]
    /\ resp' = [op |-> "unlock_accounts", u |-> u, pw |-> FALSE,
                ret |-> FALSE, msg |-> UnlockAccountsMessage(actor, action),
                pre |-> LockState(users[u], now),
                actor |-> actor, action |-> action,
                duration |-> ParseDuration(posted)]
    /\ UNCHANGED <<now, role, backends, sessVars, borrowVars, loanVars>>

\* the clock of the lock administration runs
UnlockTick(d) ==
    /\ now + d <= MaxUnlockNow
    /\ now' = now + d
    /\ resp' = Resp("tick", "", FALSE, FALSE, "")
    /\ UNCHANGED <<users, role, backends, streak, sessVars, borrowVars, loanVars>>

\* the clock of the lockout runs
AuthDeltas == {150, 300}

AuthTick(d) ==
    /\ now + d <= MaxAuthNow
    /\ now' = now + d
    /\ resp' = Resp("tick", "", FALSE, FALSE, "")
    /\ UNCHANGED <<users, role, backends, streak, sessVars, borrowVars, loanVars>>


----------------------------------------------------------------------------
(* utils/system_settings.py: SystemSettingsHelper.  GetSetting is a call    *)
(* that runs alone: the pages that change the table delete the cache key,   *)
(* so the raw value get_setting caches for 300 s is the stored one and the  *)
(* cache is left out here.  The runs of concurrent calls keep the cache     *)
(* (GetSettingRead, GetSettingSet).                                         *)

\* Python values: None, int, str, bool; Decimal and float in tenths
PyNone == [kind |-> "none", i |-> 0, s |-> ""]
PyInt(n) == [kind |-> "int", i |-> n, s |-> ""]
PyStr(str) == [kind |-> "str", i |-> 0, s |-> str]
PyBool(b) == [kind |-> "bool", i |-> IF b THEN 1 ELSE 0, s |-> ""]
PyDecimal(tenths) == [kind |-> "decimal", i |-> tenths, s |-> ""]
PyFloat(tenths) == [kind |-> "float", i |-> tenths, s |-> ""]

\* the strings a SystemSetting.value holds in the runs
RawStrings == {"20", "0", "12.7", "abc", "", "true"}

\* str.isdigit() and int(value) on those strings
IsDigit(str) == str \in {"20", "0"}
IntOf(str) == IF str = "20" THEN 20 ELSE 0

\* float(value) succeeds; its value in tenths
IsFloat(str) == str \in {"20", "0", "12.7"}
TenthsOf(str) == IF str = "20" THEN 200 ELSE IF str = "12.7" THEN 127 ELSE 0

SettingTypes == {"number", "decimal", "boolean", "json", "text"}

\* SystemSettingsHelper._convert_value: value is a str or None; every
\* exception of the conversion returns the default
ConvertValue(value, type, default) ==
    CASE type = "number" ->
            IF value.kind = "none" THEN default
            ELSE IF IsDigit(value.s) THEN PyInt(IntOf(value.s))
            ELSE IF IsFloat(value.s) THEN PyInt(TenthsOf(value.s) \div 10)
            ELSE default
      [] type = "decimal" ->
            IF value.kind = "str" /\ IsFloat(value.s)
            THEN PyDecimal(TenthsOf(value.s))
            ELSE default
      [] type = "boolean" ->
            PyBool(value.kind = "str" /\ value.s \in {"true"})
      [] type = "json" ->
            IF value.kind = "none" THEN default
            ELSE IF IsDigit(value.s) THEN PyInt(IntOf(value.s))
            ELSE IF IsFloat(value.s) THEN PyFloat(TenthsOf(value.s))
            ELSE IF value.s = "true" THEN PyBool(TRUE)
            ELSE default
      [] OTHER ->
            IF value.kind = "none" THEN PyStr("None") ELSE PyStr(value.s)

\* the keys the table may hold in the runs
SettingKeys == {"member_session_timeout_minutes",
                "admin_session_timeout_minutes",
                "session_timeout_minutes"}

\* SystemSetting.objects.get(key=key) raises DoesNotExist
NoSetting == PyNone

\* the table with no row, answering
NoSettings == [up |-> TRUE, rows |-> [k \in SettingKeys |-> NoSetting]]

\* SystemSettingsHelper.get_setting
GetSetting(st, key, default, type) ==
    IF ~st.up THEN default
    ELSE IF key \notin DOMAIN st.rows THEN default
    ELSE IF st.rows[key] = NoSetting THEN default
    ELSE ConvertValue(st.rows[key], type, default)

\* SystemSettingsHelper.get_session_timeout_minutes
GetSessionTimeoutMinutes(st, default) ==
    GetSetting(st, "session_timeout_minutes", default, "number")

\* f"{user.role}_session_timeout_minutes"
RoleKey(rl) ==
    CASE rl = "member" -> "member_session_timeout_minutes"
      [] rl = "admin" -> "admin_session_timeout_minutes"
      [] rl = "manager" -> "manager_session_timeout_minutes"
      [] OTHER -> "librarian_session_timeout_minutes"

----------------------------------------------------------------------------
(* admin_dashboard/middleware.py and middleware_optimized.py:               *)
(* the session timeout middlewares                                          *)

\* the session cookies of the one user of the session runs
SessionKeys == {"s1", "s2"}

\* the middleware class a deployment may install
Middlewares == {"basic", "optimized"}

\* a session nobody has logged in with yet
NewSession == [state |-> "new", last_activity |-> None]

\* UserSession.objects.filter(session_key=...).first() is None.  Of a row
\* the model keeps is_active and timeout_minutes; its last_activity column
\* is written with every update and read by no middleware, which compares
\* against session['last_activity']
NoRow == [exists |-> FALSE, is_active |-> FALSE, timeout_minutes |-> 0]

\* cache.get finds nothing under a key
NoEntry == [val |-> 0, exp |-> None]

EmptyCache == [session_valid |-> NoEntry, user_timeout |-> NoEntry,
               last_activity |-> NoEntry]

\* cache.get(key): the entry's value while it has not expired
CacheHit(e, t) == t < e.exp

\* cache.set(key, val, timeout)
CacheSet(val, timeout, t) == [val |-> val, exp |-> t + timeout]

\* the cache with the entries dropped that have expired at time t
Purge(c, t) ==
    [k \in DOMAIN c |-> IF CacheHit(c[k], t) THEN c[k] ELSE NoEntry]

\* get_timeout_minutes: utils.system_settings imports, so the role table
\* after the except ImportError is never reached
GetTimeoutMinutes(rl) ==
    IF GetSetting(settings, RoleKey(rl), PyNone, "number") = PyNone
    THEN GetSessionTimeoutMinutes(settings,
                                  PyInt(DEFAULT_SESSION_TIMEOUT)).i
    ELSE GetSetting(settings, RoleKey(rl), PyNone, "number").i

\* _get_user_timeout: the UserSession row's timeout, else the role's
GetUserTimeout(row, rl) ==
    IF row.exists THEN row.timeout_minutes ELSE GetTimeoutMinutes(rl)

\* the check of both middlewares: now - last_activity > timedelta(minutes)
Expired(s, T, t) ==
    s.last_activity # None /\ t - s.last_activity > Minutes(T)

\* django.contrib.auth.logout: the session is flushed
LoggedOut == [state |-> "ended", last_activity |-> None]

\* _cleanup_user_session
CleanupUserSession(row) ==
    IF row.exists THEN [row EXCEPT !.is_active = FALSE] ELSE row

\* SessionTimeoutMiddleware._update_user_session
UpdateUserSession(row, T, t) ==
    IF row.exists
    THEN [row EXCEPT !.is_active = TRUE, !.timeout_minutes = T]
    ELSE [exists |-> TRUE, is_active |-> TRUE, timeout_minutes |-> T]

\* SessionTimeoutMiddleware.__call__ for an authenticated request
BasicOutcome(s, row, rl, auditOk, t) ==
    LET T == GetUserTimeout(row, rl)
    IN  IF T # 0
        THEN IF Expired(s, T, t)
             THEN [sess |-> LoggedOut, row |-> CleanupUserSession(row),
                   verdict |-> "TimedOut", served |-> FALSE,
                   redirect |-> TRUE, audits |-> IF auditOk THEN 1 ELSE 0]
             ELSE [sess |-> [s EXCEPT !.last_activity = t],
                   row |-> UpdateUserSession(row, T, t),
                   verdict |-> "Valid", served |-> TRUE,
                   redirect |-> FALSE, audits |-> 0]
        ELSE [sess |-> s, row |-> row, verdict |-> "Valid", served |-> TRUE,
              redirect |-> FALSE, audits |-> 0]

\* OptimizedSessionTimeoutMiddleware._get_user_timeout_cached
GetUserTimeoutCached(c, row, rl, t) ==
    IF CacheHit(c.user_timeout, t)
    THEN [T |-> c.user_timeout.val, cache |-> c]
    ELSE LET T == GetUserTimeout(row, rl)
         IN  [T |-> T,
              cache |-> [c EXCEPT !.user_timeout =
                            CacheSet(T, SESSION_CHECK_CACHE_TIMEOUT, t)]]

\* OptimizedSessionTimeoutMiddleware._perform_session_check
PerformSessionCheck(s, c, row, rl, t) ==
    LET g == GetUserTimeoutCached(c, row, rl, t)
    IN  IF g.T # 0
        THEN IF Expired(s, g.T, t)
             THEN [valid |-> FALSE, sess |-> s, cache |-> g.cache]
             ELSE [valid |-> TRUE, sess |-> [s EXCEPT !.last_activity = t],
                   cache |-> g.cache]
        ELSE [valid |-> TRUE, sess |-> s, cache |-> g.cache]

\* OptimizedSessionTimeoutMiddleware._update_user_session
UpdateUserSessionOptimized(row, c, rl, t) ==
    IF row.exists
    THEN [row |-> [row EXCEPT !.is_active = TRUE], cache |-> c]
    ELSE LET g == GetUserTimeoutCached(c, row, rl, t)
         IN  [row |-> [exists |-> TRUE, is_active |-> TRUE,
                       timeout_minutes |-> g.T],
              cache |-> g.cache]

\* OptimizedSessionTimeoutMiddleware._update_last_activity_cached
UpdateLastActivityCached(row, c, rl, t) ==
    IF CacheHit(c.last_activity, t)
    THEN [row |-> row, cache |-> c]
    ELSE LET up == UpdateUserSessionOptimized(row, c, rl, t)
         IN  [row |-> up.row,
              cache |-> [up.cache EXCEPT !.last_activity =
                            CacheSet(1, TIMEOUT_CHECK_CACHE_TIMEOUT, t)]]

\* OptimizedSessionTimeoutMiddleware._handle_session_timeout: the audit
\* write, the cleanup and the logout share one try block
HandleSessionTimeout(s, row, auditOk) ==
    IF auditOk
    THEN [sess |-> LoggedOut, row |-> CleanupUserSession(row), audits |-> 1]
    ELSE [sess |-> s, row |-> row, audits |-> 0]

\* OptimizedSessionTimeoutMiddleware.__call__ for an authenticated request
OptimizedOutcome(s, row, c, rl, auditOk, t) ==
    LET hit == CacheHit(c.session_valid, t)
        chk == PerformSessionCheck(s, c, row, rl, t)
        valid == IF hit THEN c.session_valid.val = 1 ELSE chk.valid
        s1 == IF hit THEN s ELSE chk.sess
        c1 == IF hit THEN c
              ELSE [chk.cache EXCEPT !.session_valid =
                       CacheSet(IF chk.valid THEN 1 ELSE 0,
                                SESSION_CHECK_CACHE_TIMEOUT, t)]
    IN  IF ~valid
        THEN LET h == HandleSessionTimeout(s1, row, auditOk)
             IN  [sess |-> h.sess, row |-> h.row, cache |-> c1,
                  verdict |-> "TimedOut", served |-> FALSE,
                  redirect |-> TRUE, audits |-> h.audits]
        ELSE LET up == UpdateLastActivityCached(row, c1, rl, t)
             IN  [sess |-> s1, row |-> up.row, cache |-> up.cache,
                  verdict |-> "Valid", served |-> TRUE,
                  redirect |-> FALSE, audits |-> 0]

\* the role of the one user of the session runs
SessRole == "member"

\* the record of a request: the session, the verdict of the check, whether
\* the view ran, whether the answer was the redirect to login, and the
\* audit sink's state and the SESSION_TIMEOUT events written
SResp(op, sk, out, auditOk) ==
    [op |-> op, sk |-> sk, verdict |-> out.verdict, served |-> out.served,
     redirect |-> out.redirect, auditOk |-> auditOk, audits |-> out.audits]

NoOutcome == [verdict |-> "none", served |-> FALSE, redirect |-> FALSE,
              audits |-> 0]

\* login_view logs the user in on a fresh session
SessLogin(sk) ==
    /\ sess[sk].state = "new"
    /\ sess' = [sess EXCEPT ![sk] = [state |-> "active",
                                     last_activity |-> None]]
    /\ sresp' = SResp("login", sk, NoOutcome, TRUE)
    /\ UNCHANGED <<now, authVars, mw, rows, cache, cfgVars, polVars, borrowVars,
                   loanVars>>

\* a request of a logged-in session passes through the middleware; the
\* audit sink accepts writes (auditOk) or raises
SessRequest(sk, auditOk) ==
    /\ sess[sk].state = "active"
    /\ IF mw = "basic"
       THEN LET out == BasicOutcome(sess[sk], rows[sk], SessRole, auditOk, now)
            IN  /\ sess' = [sess EXCEPT ![sk] = out.sess]
                /\ rows' = [rows EXCEPT ![sk] = out.row]
                /\ cache' = cache
                /\ sresp' = SResp("request", sk, out, auditOk)
       ELSE LET out == OptimizedOutcome(sess[sk], rows[sk], cache, SessRole,
                                        auditOk, now)
            IN  /\ sess' = [sess EXCEPT ![sk] = out.sess]
                /\ rows' = [rows EXCEPT ![sk] = out.row]
                /\ cache' = out.cache
                /\ sresp' = SResp("request", sk, out, auditOk)
    /\ UNCHANGED <<now, authVars, mw, cfgVars, polVars, borrowVars, loanVars>>

\* logout_view: the request passes through the middleware like any other;
\* when it reaches the view, logout(request) flushes the session.  The
\* user_logged_out receiver writes a LOGOUT audit record and nothing else,
\* and CacheInvalidationMiddleware sees an anonymous user after the view
\* and deletes nothing
SessLogout(sk, auditOk) ==
    /\ sess[sk].state = "active"
    /\ IF mw = "basic"
       THEN LET out == BasicOutcome(sess[sk], rows[sk], SessRole, auditOk, now)
            IN  /\ sess' = [sess EXCEPT ![sk] =
                               IF out.served THEN LoggedOut ELSE out.sess]
                /\ rows' = [rows EXCEPT ![sk] = out.row]
                /\ cache' = cache
                /\ sresp' = SResp("logout", sk, out, auditOk)
       ELSE LET out == OptimizedOutcome(sess[sk], rows[sk], cache, SessRole,
                                        auditOk, now)
            IN  /\ sess' = [sess EXCEPT ![sk] =
                               IF out.served THEN LoggedOut ELSE out.sess]
                /\ rows' = [rows EXCEPT ![sk] = out.row]
                /\ cache' = out.cache
                /\ sresp' = SResp("logout", sk, out, auditOk)
    /\ UNCHANGED <<now, authVars, mw, cfgVars, polVars, borrowVars, loanVars>>

\* the clock of the session runs
SessDeltas == {30, 840}

SessTick(d) ==
    /\ now + d <= MaxSessNow
    /\ now' = now + d
    /\ cache' = Purge(cache, now')
    /\ sresp' = SResp("tick", "", NoOutcome, TRUE)
    /\ UNCHANGED <<authVars, mw, sess, rows, cfgVars, polVars, borrowVars, loanVars>>

----------------------------------------------------------------------------
(* Reading the configuration: direct calls of the settings helper and of    *)
(* the middlewares' timeout resolution on a table drawn at the start        *)

\* the record of a call: its arguments and what it returned
CResp(op, key, type, value, default, rl, row, ret) ==
    [op |-> op, key |-> key, type |-> type, value |-> value,
     default |-> default, rl |-> rl, row |-> row, ret |-> ret]

NoCResp == CResp("init", "", "", PyNone, PyNone, "", NoRow, PyNone)

\* the defaults callers pass
Defaults == {PyNone, PyInt(999)}

\* the keys callers ask for
AskedKeys == SettingKeys \cup {"unknown_key"}

\* the values the rows of the table hold at the start
StoredStrings == {"20", "abc", ""}

\* the values _convert_value is handed: a stored string, or None
ConvertedValues == {PyStr(str) : str \in RawStrings} \cup {PyNone}

\* the UserSession row of the asking session: none, or one with a timeout
\* of its own
AskingRows == {NoRow, [exists |-> TRUE, is_active |-> TRUE,
                       timeout_minutes |-> 45]}

GetSettingCall(key, default, type) ==
    /\ cresp' = CResp("get_setting", key, type, PyNone, default, "", NoRow,
                      GetSetting(settings, key, default, type))
    /\ UNCHANGED <<now, authVars, mw, sess, rows, cache, sresp, settings,
                   polVars, borrowVars, loanVars>>

ConvertValueCall(value, default, type) ==
    /\ cresp' = CResp("convert_value", "", type, value, default, "", NoRow,
                      ConvertValue(value, type, default))
    /\ UNCHANGED <<now, authVars, mw, sess, rows, cache, sresp, settings,
                   polVars, borrowVars, loanVars>>

\* _get_user_timeout of a request of role rl whose session has row
GetUserTimeoutCall(rl, row) ==
    /\ cresp' = CResp("get_user_timeout", "", "", PyNone, PyNone, rl, row,
                      PyInt(GetUserTimeout(row, rl)))
    /\ UNCHANGED <<now, authVars, mw, sess, rows, cache, sresp, settings,
                   polVars, borrowVars, loanVars>>

----------------------------------------------------------------------------
(* borrow/models.py and borrow/views.py: the borrowing workflow.  No view   *)
(* opens a transaction or locks a row, so every query and every save of a   *)
(* request is a step of its own, and requests interleave between steps.     *)

Members == {"m1", "m2"}
Books == {"b1"}

\* the values random.choices can produce, cut down to two
Codes == {"K1", "K2"}

\* pickup_code = None
NoCode == "none"

\* the librarians' requests that can be in flight together
Procs == {"p1", "p2"}

\* borrow/models.py:49  timedelta(days=3)
PICKUP_CODE_DAYS == 3

\* datetime.timedelta(days=d), in seconds
Days(d) == d * 86400

\* the ids of the rows in the table
Ids == DOMAIN borrowings

\* the rows that are in the table: a deleted row keeps its place here with
\* status "deleted", so that a later save of an object read before the
\* delete puts the row back under its id, as Model.save does
LiveIds == {i \in Ids : borrowings[i].status # "deleted"}

\* timezone.now().date(), in days
Date(t) == t \div 86400

\* users/management/commands/setup_memberships.py:23  Basic Member
LOAN_PERIOD_DAYS == 14

\* a Borrowing as borrow_book creates it at time t: due_date is the day of
\* the request until the pickup sets it
NewBorrowing(u, b, t) ==
    [user |-> u, book |-> b, status |-> "pending", pickup_code |-> NoCode,
     approved_date |-> None, due_date |-> Date(t), pickup_date |-> None,
     return_date |-> None, is_extended |-> FALSE]

NoSnap == NewBorrowing("", "", 0)

\* a request handler that is not running
IdleProc == [op |-> "idle", pc |-> "idle", bid |-> 0, snap |-> NoSnap,
             result |-> "", code |-> NoCode]

\* the handler has answered (or never ran) and can take a new request
Free(p) == procs[p].pc \in {"idle", "done"}

\* the answer of a request: its result and the code its message shows; the
\* object the handler held is dropped with it
Done(pr, result, code) ==
    [pr EXCEPT !.pc = "done", !.result = result, !.code = code,
               !.snap = NoSnap, !.bid = 0]

\* an answer that names the Borrowing it is about
DoneOn(pr, result, code) == [Done(pr, result, code) EXCEPT !.bid = pr.bid]

\* is_code_expired with the code expiring when the third day ends
IsCodeExpiredOnTheDay(b, t) ==
    IF b.approved_date = None THEN FALSE
    ELSE t >= b.approved_date + Days(PICKUP_CODE_DAYS)

\* Borrowing.is_code_expired
IsCodeExpired(b, t) ==
    IF b.approved_date = None THEN FALSE
    ELSE t > b.approved_date + Days(PICKUP_CODE_DAYS)

\* filter(book=book, status__in=['borrowed', 'overdue']).exclude(id=bid)
BookBorrowed(b, bid) ==
    \E i \in Ids : /\ i # bid
                   /\ borrowings[i].book = b
                   /\ borrowings[i].status \in {"borrowed", "overdue"}

\* filter(user=, book=, status__in=[pending, approved, borrowed, overdue])
ExistingBorrowing(u, b) ==
    \E i \in Ids : /\ borrowings[i].user = u
                   /\ borrowings[i].book = b
                   /\ borrowings[i].status \in
                        {"pending", "approved", "borrowed", "overdue"}

\* users/management/commands/setup_memberships.py:22  Basic Member
MEMBERSHIP_MAX_BOOKS == 3

\* filter(user=, status__in=['borrowed', 'overdue'], return_date=None).count()
ActiveBorrowingsCount(u) ==
    Cardinality({i \in Ids : /\ borrowings[i].user = u
                             /\ borrowings[i].status \in {"borrowed", "overdue"}})

\* the borrow_book requests that have passed their checks and not yet
\* created their row
Creating == {q \in Procs : procs[q].op = "borrow" /\ procs[q].pc = "create"}

\* borrow_book by a member with a membership: the three queries
\* (existing_borrowing, book_borrowed, active_borrowings_count)
BorrowCheck(p, u, b) ==
    /\ Free(p)
    /\ Len(borrowings) + Cardinality(Creating) < MaxBorrowings
    /\ LET pr == [op |-> "borrow", pc |-> "create", bid |-> 0,
                  snap |-> NewBorrowing(u, b, now), result |-> "",
                  code |-> NoCode]
       IN  procs' = [procs EXCEPT ![p] =
                IF ExistingBorrowing(u, b)
                THEN Done(pr, "already_requested", NoCode)
                ELSE IF BookBorrowed(b, 0)
                THEN Done(pr, "unavailable", NoCode)
                ELSE IF ActiveBorrowingsCount(u) >= MEMBERSHIP_MAX_BOOKS
                THEN Done(pr, "limit_reached", NoCode)
                ELSE pr]
    /\ UNCHANGED <<now, authVars, sessVars, borrowings, loanVars>>

\* borrow_book: Borrowing.objects.create(..., status='pending')
BorrowCreate(p) ==
    /\ procs[p].op = "borrow" /\ procs[p].pc = "create"
    /\ LET pr == procs[p]
           row == NewBorrowing(pr.snap.user, pr.snap.book, now)
       IN  /\ borrowings' = Append(borrowings, row)
           /\ procs' = [procs EXCEPT ![p] = Done(pr, "requested", NoCode)]
    /\ UNCHANGED <<now, authVars, sessVars, loanVars>>

\* approve_borrowing_request: get_object_or_404 and the status test
ApproveGet(p, bid) ==
    /\ Free(p)
    /\ bid \in LiveIds
    /\ LET snap == borrowings[bid]
           pr == [op |-> "approve", pc |-> "check", bid |-> bid,
                  snap |-> snap, result |-> "", code |-> NoCode]
       IN  procs' = [procs EXCEPT ![p] =
                        IF snap.status # "pending"
                        THEN DoneOn(pr, "not_pending", NoCode)
                        ELSE pr]
    /\ UNCHANGED <<now, authVars, sessVars, borrowings, loanVars>>

\* approve_borrowing_request: the book_borrowed query
ApproveCheckBook(p) ==
    /\ procs[p].op = "approve" /\ procs[p].pc = "check"
    /\ procs' = [procs EXCEPT ![p] =
                    IF BookBorrowed(@.snap.book, @.bid)
                    THEN Done(@, "unavailable", NoCode)
                    ELSE [@ EXCEPT !.pc = "gen"]]
    /\ UNCHANGED <<now, authVars, sessVars, borrowings, loanVars>>

\* Borrowing.generate_pickup_code: a random code no row holds at this moment
GeneratePickupCode(p, c) ==
    /\ procs[p].op = "approve" /\ procs[p].pc = "gen"
    /\ ~\E i \in Ids : borrowings[i].pickup_code = c
    /\ procs' = [procs EXCEPT ![p] =
                    [@ EXCEPT !.pc = "save", !.snap.pickup_code = c]]
    /\ UNCHANGED <<now, authVars, sessVars, borrowings, loanVars>>

\* a table without the UNIQUE constraint on pickup_code
UniqueViolationNever(bid, c) == FALSE

\* the UNIQUE constraint on pickup_code rejects the save of row bid
UniqueViolation(bid, c) ==
    c # NoCode /\ \E i \in Ids : i # bid /\ borrowings[i].pickup_code = c

\* approve_borrowing_request: borrowing.save() of the whole object, and the
\* success message with the pickup code
ApproveSave(p) ==
    /\ procs[p].op = "approve" /\ procs[p].pc = "save"
    /\ LET pr  == procs[p]
           row == [pr.snap EXCEPT !.status = "approved",
                                  !.approved_date = now]
       IN  IF UniqueViolation(pr.bid, row.pickup_code)
           THEN /\ procs' = [procs EXCEPT ![p] =
                                Done(pr, "integrity_error", NoCode)]
                /\ UNCHANGED borrowings
           ELSE /\ borrowings' = [borrowings EXCEPT ![pr.bid] = row]
                /\ procs' = [procs EXCEPT ![p] =
                                DoneOn(pr, "approved", row.pickup_code)]
    /\ UNCHANGED <<now, authVars, sessVars, loanVars>>

\* pickup_code_entry: Borrowing.objects.get(pickup_code=, status='approved')
PickupGet(p, c) ==
    /\ Free(p)
    /\ LET hits == {i \in Ids : /\ borrowings[i].pickup_code = c
                                /\ borrowings[i].status = "approved"}
           pr(i) == [op |-> "pickup", pc |-> "save", bid |-> i,
                     snap |-> borrowings[i], result |-> "", code |-> c]
       IN  IF hits = {}
           THEN procs' = [procs EXCEPT ![p] =
                    Done([IdleProc EXCEPT !.op = "pickup"], "invalid_code", c)]
           ELSE \E i \in hits : procs' = [procs EXCEPT ![p] = pr(i)]
    /\ UNCHANGED <<now, authVars, sessVars, borrowings, loanVars>>

\* pickup_code_entry: the expiry test and borrowing.save() of the whole
\* object as it was read
PickupSave(p) ==
    /\ procs[p].op = "pickup" /\ procs[p].pc = "save"
    /\ LET pr == procs[p]
       IN  IF IsCodeExpired(pr.snap, now)
           THEN IF UniqueViolation(pr.bid, pr.snap.pickup_code)
                THEN /\ procs' = [procs EXCEPT ![p] =
                                     Done(pr, "integrity_error", NoCode)]
                     /\ UNCHANGED borrowings
                ELSE /\ borrowings' = [borrowings EXCEPT ![pr.bid] =
                                         [pr.snap EXCEPT !.status = "expired"]]
                     /\ procs' = [procs EXCEPT ![p] =
                                     Done(pr, "expired", NoCode)]
           ELSE /\ borrowings' = [borrowings EXCEPT ![pr.bid] =
                                    [pr.snap EXCEPT
                                        !.status = "borrowed",
                                        !.due_date = Date(now) + LOAN_PERIOD_DAYS,
                                        !.pickup_date = now,
                                        !.pickup_code = NoCode]]
                /\ procs' = [procs EXCEPT ![p] = Done(pr, "borrowed", NoCode)]
    /\ UNCHANGED <<now, authVars, sessVars, loanVars>>

\* cleanup_expired_codes: filter(status='approved', approved_date__lt=now - 3
\* days).update(status='expired'), one UPDATE statement
CleanupExpiredCodes ==
    /\ \E i \in Ids : /\ borrowings[i].status = "approved"
                      /\ IsCodeExpired(borrowings[i], now)
    /\ borrowings' = [i \in Ids |->
            IF borrowings[i].status = "approved"
               /\ borrowings[i].approved_date < now - Days(PICKUP_CODE_DAYS)
            THEN [borrowings[i] EXCEPT !.status = "expired"]
            ELSE borrowings[i]]
    /\ UNCHANGED <<now, authVars, sessVars, procs, loanVars>>

\* reject_borrowing_request: get_object_or_404 and the status test
RejectGet(p, bid) ==
    /\ Free(p)
    /\ bid \in LiveIds
    /\ LET snap == borrowings[bid]
           pr == [op |-> "reject", pc |-> "save", bid |-> bid,
                  snap |-> snap, result |-> "", code |-> NoCode]
       IN  procs' = [procs EXCEPT ![p] =
                        IF snap.status # "pending"
                        THEN DoneOn(pr, "not_pending", NoCode)
                        ELSE pr]
    /\ UNCHANGED <<now, authVars, sessVars, borrowings, loanVars>>

\* reject_borrowing_request: borrowing.save() of the whole object
RejectSave(p) ==
    /\ procs[p].op = "reject" /\ procs[p].pc = "save"
    /\ LET pr == procs[p]
       IN  /\ borrowings' = [borrowings EXCEPT ![pr.bid] =
                                [pr.snap EXCEPT !.status = "rejected"]]
           /\ procs' = [procs EXCEPT ![p] = DoneOn(pr, "rejected", NoCode)]
    /\ UNCHANGED <<now, authVars, sessVars, loanVars>>

\* cancel_borrowing_request by member u: get_object_or_404, the owner test
\* and the status test
CancelGet(p, bid, u) ==
    /\ Free(p)
    /\ bid \in LiveIds
    /\ LET snap == borrowings[bid]
           pr == [op |-> "cancel", pc |-> "delete", bid |-> bid,
                  snap |-> snap, result |-> "", code |-> NoCode]
       IN  procs' = [procs EXCEPT ![p] =
                        IF snap.user # u
                        THEN DoneOn(pr, "not_owner", NoCode)
                        ELSE IF snap.status # "pending"
                        THEN DoneOn(pr, "not_pending", NoCode)
                        ELSE pr]
    /\ UNCHANGED <<now, authVars, sessVars, borrowings, loanVars>>

\* cancel_borrowing_request: borrowing.delete(), a DELETE by id
CancelDelete(p) ==
    /\ procs[p].op = "cancel" /\ procs[p].pc = "delete"
    /\ LET pr == procs[p]
       IN  /\ borrowings' = [borrowings EXCEPT ![pr.bid] =
                                [@ EXCEPT !.status = "deleted",
                                          !.pickup_code = NoCode]]
           /\ procs' = [procs EXCEPT ![p] = DoneOn(pr, "cancelled", NoCode)]
    /\ UNCHANGED <<now, authVars, sessVars, loanVars>>

\* borrowing_history: the calculated_status shown for a row on day today
CalculatedStatus(b, today) ==
    IF b.status = "pending" THEN "pending"
    ELSE IF b.status = "rejected" THEN "rejected"
    ELSE IF b.status = "approved"
         THEN IF IsCodeExpired(b, now) THEN "expired" ELSE "approved"
    ELSE IF b.status \in {"borrowed", "overdue"}
         THEN IF b.due_date - today < 0 THEN "overdue"
              ELSE IF b.due_date - today = 0 THEN "due_today"
              ELSE IF b.due_date - today <= 2 THEN "due_soon"
              ELSE "borrowed"
    ELSE b.status

\* borrowing.is_code_expired() called on a row just read; the answer is
\* the handler's result
IsCodeExpiredCall(p, bid) ==
    /\ Free(p)
    /\ bid \in Ids
    /\ procs' = [procs EXCEPT ![p] =
                    DoneOn([op |-> "is_code_expired", pc |-> "call",
                            bid |-> bid, snap |-> NoSnap, result |-> "",
                            code |-> NoCode],
                           IF IsCodeExpired(borrowings[bid], now)
                           THEN "True" ELSE "False",
                           NoCode)]
    /\ UNCHANGED <<now, authVars, sessVars, borrowings, loanVars>>

\* the clock of the expiry runs: a day, or a second at the start of a day
ExpiryDeltas == {1, Days(1)}

ExpiryTick(d) ==
    /\ d < Days(1) => now % Days(1) < MaxExpirySeconds
    /\ d >= Days(1) => Date(now) < MaxExpiryDays
    /\ now' = now + d
    /\ UNCHANGED <<authVars, sessVars, borrowVars, loanVars>>

\* the clock of the lifecycle runs: four days at a time
LifecycleTick ==
    /\ Date(now) < MaxLifecycleDays
    /\ now' = now + Days(4)
    /\ UNCHANGED <<authVars, sessVars, borrowVars, loanVars>>

\* the clock of the borrowing runs
BorrowDeltas == {4}

BorrowTick(d) ==
    /\ now + Days(d) <= Days(MaxBorrowDays)
    /\ now' = now + Days(d)
    /\ UNCHANGED <<authVars, sessVars, borrowVars, loanVars>>

----------------------------------------------------------------------------
(* fines/models.py and borrow/views.py: returning a book and its fine.  The *)
(* view runs without a transaction, so its queries and saves are steps      *)

\* calculate_overdue_fine billing every day at the rate of the tier the last
\* day falls in
CalculateOverdueFineFlat(st, days_overdue) ==
    IF days_overdue <= 0 THEN 0
    ELSE IF days_overdue <= GetSetting(st, "fine_tier_1_days", PyInt(3),
                                       "number").i
    THEN GetSetting(st, "fine_tier_1_rate", PyDecimal(20), "decimal").i
            * days_overdue
    ELSE IF days_overdue <= GetSetting(st, "fine_tier_2_days", PyInt(7),
                                       "number").i
    THEN GetSetting(st, "fine_tier_2_rate", PyDecimal(50), "decimal").i
            * days_overdue
    ELSE GetSetting(st, "fine_tier_3_rate", PyDecimal(100), "decimal").i
            * days_overdue

\* Fine.calculate_overdue_fine, in tenths of MVR: utils.system_settings
\* imports, so the tiers are read from the settings with the defaults
\* 3 days at 2.00, up to 7 days at 5.00, then 10.00
CalculateOverdueFine(st, days_overdue) ==
    IF days_overdue <= 0 THEN 0
    ELSE LET tier_1_days == GetSetting(st, "fine_tier_1_days", PyInt(3),
                                       "number").i
             tier_1_rate == GetSetting(st, "fine_tier_1_rate", PyDecimal(20),
                                       "decimal").i
             tier_2_days == GetSetting(st, "fine_tier_2_days", PyInt(7),
                                       "number").i
             tier_2_rate == GetSetting(st, "fine_tier_2_rate", PyDecimal(50),
                                       "decimal").i
             tier_3_rate == GetSetting(st, "fine_tier_3_rate",
                                       PyDecimal(100), "decimal").i
         IN  IF days_overdue <= tier_1_days
             THEN tier_1_rate * days_overdue
             ELSE IF days_overdue <= tier_2_days
             THEN tier_1_rate * tier_1_days
                    + tier_2_rate * (days_overdue - tier_1_days)
             ELSE tier_1_rate * tier_1_days
                    + tier_2_rate * (tier_2_days - tier_1_days)
                    + tier_3_rate * (days_overdue - tier_2_days)

\* Fine.objects.create(borrowing=, amount=, days_overdue=,
\* fine_type='overdue', paid=False)
NewFine(bid, amount, days_overdue) ==
    [borrowing |-> bid, amount |-> amount, days_overdue |-> days_overdue,
     fine_type |-> "overdue", paid |-> FALSE]

\* Fine.objects.filter(borrowing=borrowing, fine_type='overdue')
OverdueFines(bid) ==
    {k \in DOMAIN fines : /\ fines[k].borrowing = bid
                          /\ fines[k].fine_type = "overdue"}

\* days_overdue = (today - borrowing.due_date).days of the object a return
\* handler holds, whose return_date is that today
DaysOverdue(snap) == snap.return_date - snap.due_date

\* process_book_return: get_object_or_404, the status test, today, and the
\* new status and return_date put on the object in memory
ReturnGet(p, bid) ==
    /\ Free(p)
    /\ bid \in LiveIds
    /\ LET row == borrowings[bid]
           pr == [op |-> "return", pc |-> "save", bid |-> bid,
                  snap |-> [row EXCEPT !.status = "returned",
                                       !.return_date = Date(now)],
                  result |-> "", code |-> NoCode]
       IN  procs' = [procs EXCEPT ![p] =
                        IF row.status \notin {"borrowed", "overdue"}
                        THEN DoneOn(pr, "not_borrowed", NoCode)
                        ELSE pr]
    /\ UNCHANGED <<now, authVars, sessVars, borrowings, loanVars>>

\* process_book_return: borrowing.save() of the whole object, then the
\* days_overdue test
ReturnSave(p) ==
    /\ procs[p].op = "return" /\ procs[p].pc = "save"
    /\ LET pr == procs[p]
       IN  /\ borrowings' = [borrowings EXCEPT ![pr.bid] = pr.snap]
           /\ procs' = [procs EXCEPT ![p] =
                           IF DaysOverdue(pr.snap) > 0
                           THEN [pr EXCEPT !.pc = "fine_check"]
                           ELSE DoneOn(pr, "returned", NoCode)]
    /\ UNCHANGED <<now, authVars, sessVars, loanVars>>

\* process_book_return: the existing_fine query
ReturnFineCheck(p) ==
    /\ procs[p].op = "return" /\ procs[p].pc = "fine_check"
    /\ LET pr == procs[p]
       IN  procs' = [procs EXCEPT ![p] =
                        IF OverdueFines(pr.bid) # {}
                        THEN DoneOn(pr, "returned", NoCode)
                        ELSE [pr EXCEPT !.pc = "fine_create"]]
    /\ UNCHANGED <<now, authVars, sessVars, borrowings, loanVars>>

\* process_book_return: Fine.objects.create and the message with the fine
ReturnFineCreate(p) ==
    /\ procs[p].op = "return" /\ procs[p].pc = "fine_create"
    /\ Len(fines) < MaxFines
    /\ LET pr == procs[p]
       IN  /\ fines' = Append(fines,
                           NewFine(pr.bid,
                                   CalculateOverdueFine(settings,
                                       DaysOverdue(pr.snap)),
                                   DaysOverdue(pr.snap)))
           /\ procs' = [procs EXCEPT ![p] =
                           DoneOn(pr, "returned_with_fine", NoCode)]
    /\ UNCHANGED <<now, authVars, sessVars, borrowings, extensions, sweepVars, pcacheVars, raceVars, scacheVars>>

\* borrow/views.py:228  extension_days = 7
EXTENSION_DAYS == 7

\* ExtensionRequest.objects.create(borrowing=borrowing)
NewExtension(bid) == [borrowing |-> bid, status |-> "pending"]

\* ExtensionRequest.objects.filter(borrowing=borrowing)
ExtensionsOf(bid) == {k \in DOMAIN extensions : extensions[k].borrowing = bid}

\* unique_together = ('borrowing',): the INSERT of a second request for the
\* Borrowing raises IntegrityError
ExtUniqueViolation(bid) == ExtensionsOf(bid) # {}

\* request_extension: get_object_or_404 and the tests of the owner's
\* membership, of the status, of is_extended and of an existing request
ExtRequestCheck(p, bid, premium) ==
    /\ Free(p)
    /\ bid \in Ids
    /\ LET row == borrowings[bid]
           pr == [op |-> "request_extension", pc |-> "create", bid |-> bid,
                  snap |-> NoSnap, result |-> "", code |-> NoCode, eid |-> 0]
       IN  procs' = [procs EXCEPT ![p] =
                IF ~premium THEN DoneOn(pr, "not_premium", NoCode)
                ELSE IF row.status # "borrowed"
                THEN DoneOn(pr, "not_borrowed", NoCode)
                ELSE IF row.is_extended
                THEN DoneOn(pr, "already_extended", NoCode)
                ELSE IF ExtensionsOf(bid) # {}
                THEN DoneOn(pr, "already_requested", NoCode)
                ELSE pr]
    /\ UNCHANGED <<now, authVars, sessVars, borrowings, loanVars>>

\* request_extension: ExtensionRequest.objects.create
ExtRequestCreate(p) ==
    /\ procs[p].op = "request_extension" /\ procs[p].pc = "create"
    /\ LET pr == procs[p]
       IN  IF ExtUniqueViolation(pr.bid)
           THEN /\ procs' = [procs EXCEPT ![p] =
                                DoneOn(pr, "integrity_error", NoCode)]
                /\ UNCHANGED extensions
           ELSE /\ extensions' = Append(extensions, NewExtension(pr.bid))
                /\ procs' = [procs EXCEPT ![p] =
                                DoneOn(pr, "requested", NoCode)]
    /\ UNCHANGED <<now, authVars, sessVars, borrowings, fines, sweepVars, pcacheVars, raceVars, scacheVars>>

\* approve_extension: get_object_or_404(ExtensionRequest) and the status
\* test
ExtApproveGet(p, eid) ==
    /\ Free(p)
    /\ eid \in DOMAIN extensions
    /\ LET pr == [op |-> "approve_extension", pc |-> "load",
                  bid |-> extensions[eid].borrowing, snap |-> NoSnap,
                  result |-> "", code |-> NoCode, eid |-> eid]
       IN  procs' = [procs EXCEPT ![p] =
                        IF extensions[eid].status # "pending"
                        THEN DoneOn(pr, "ext_not_pending", NoCode)
                        ELSE pr]
    /\ UNCHANGED <<now, authVars, sessVars, borrowings, loanVars>>

\* approve_extension: extension_request.borrowing is fetched when it is
\* first read; due_date and is_extended are set on the object in memory
ExtApproveLoad(p) ==
    /\ procs[p].op = "approve_extension" /\ procs[p].pc = "load"
    /\ LET pr == procs[p]
           row == borrowings[pr.bid]
       IN  procs' = [procs EXCEPT ![p] =
                        [pr EXCEPT !.pc = "save_borrowing",
                                   !.snap = [row EXCEPT
                                       !.due_date = row.due_date
                                                      + EXTENSION_DAYS,
                                       !.is_extended = TRUE]]]
    /\ UNCHANGED <<now, authVars, sessVars, borrowings, loanVars>>

\* approve_extension: borrowing.save() of the whole object
ExtApproveSaveBorrowing(p) ==
    /\ procs[p].op = "approve_extension" /\ procs[p].pc = "save_borrowing"
    /\ LET pr == procs[p]
       IN  /\ borrowings' = [borrowings EXCEPT ![pr.bid] = pr.snap]
           /\ procs' = [procs EXCEPT ![p] = [pr EXCEPT !.pc = "save_request"]]
    /\ UNCHANGED <<now, authVars, sessVars, loanVars>>

\* approve_extension: extension_request.save() with status approved
ExtApproveSaveRequest(p) ==
    /\ procs[p].op = "approve_extension" /\ procs[p].pc = "save_request"
    /\ LET pr == procs[p]
       IN  /\ extensions' = [extensions EXCEPT ![pr.eid].status = "approved"]
           /\ procs' = [procs EXCEPT ![p] =
                           DoneOn(pr, "ext_approved", NoCode)]
    /\ UNCHANGED <<now, authVars, sessVars, borrowings, fines, sweepVars, pcacheVars, raceVars, scacheVars>>

\* reject_extension: get_object_or_404(ExtensionRequest) and the status
\* test
ExtRejectGet(p, eid) ==
    /\ Free(p)
    /\ eid \in DOMAIN extensions
    /\ LET pr == [op |-> "reject_extension", pc |-> "save",
                  bid |-> extensions[eid].borrowing, snap |-> NoSnap,
                  result |-> "", code |-> NoCode, eid |-> eid]
       IN  procs' = [procs EXCEPT ![p] =
                        IF extensions[eid].status # "pending"
                        THEN DoneOn(pr, "ext_not_pending", NoCode)
                        ELSE pr]
    /\ UNCHANGED <<now, authVars, sessVars, borrowings, loanVars>>

\* reject_extension: extension_request.save() with status rejected
ExtRejectSave(p) ==
    /\ procs[p].op = "reject_extension" /\ procs[p].pc = "save"
    /\ LET pr == procs[p]
       IN  /\ extensions' = [extensions EXCEPT ![pr.eid].status = "rejected"]
           /\ procs' = [procs EXCEPT ![p] =
                           DoneOn(pr, "ext_rejected", NoCode)]
    /\ UNCHANGED <<now, authVars, sessVars, borrowings, fines, sweepVars, pcacheVars, raceVars, scacheVars>>

\* the keys of the fine tiers; the runs that read the configuration store
\* a rate under the first of them
FineKeys == {"fine_tier_1_days", "fine_tier_1_rate", "fine_tier_2_days",
             "fine_tier_2_rate", "fine_tier_3_rate"}
StoredFineKey == "fine_tier_1_rate"

\* the days calculate_overdue_fine is asked about
OverdueDays == (0 - 1) .. MaxOverdueDays

\* Fine.calculate_overdue_fine(days_overdue), called on its own
CalculateOverdueFineCall(days_overdue) ==
    /\ cresp' = CResp("calculate_overdue_fine", "", "", PyInt(days_overdue),
                      PyNone, "", NoRow,
                      PyDecimal(CalculateOverdueFine(settings,
                                                     days_overdue)))
    /\ UNCHANGED <<now, authVars, mw, sess, rows, cache, sresp, settings,
                   polVars, borrowVars, loanVars>>

\* the clock of the loan runs, in days
LoanDeltas == {7}

LoanTick(d) ==
    /\ now + Days(d) <= Days(MaxLoanDays)
    /\ now' = now + Days(d)
    /\ UNCHANGED <<authVars, sessVars, borrowVars, loanVars>>

----------------------------------------------------------------------------
(* borrow/views.py cleanup_expired_codes and the expire_reservations        *)
(* command: the expiry sweeps, each run as one call                         *)

\* the approved rows a sweep that forgets the age would take
StaleCodesAnyAge(bs, t) ==
    {i \in DOMAIN bs : bs[i].status = "approved"}

\* filter(status='approved', approved_date__lt=timezone.now() - 3 days); a
\* NULL approved_date matches no comparison
StaleCodes(bs, t) ==
    {i \in DOMAIN bs : /\ bs[i].status = "approved"
                       /\ bs[i].approved_date # None
                       /\ bs[i].approved_date < t - Days(PICKUP_CODE_DAYS)}

\* what a sweep reports: its name, the rows it counted and its options
Sweep(op, count, dry_run, hours) ==
    [op |-> op, count |-> count, dry_run |-> dry_run, hours |-> hours]

\* cleanup_expired_codes(): count(), then update(status='expired')
CleanupExpiredCodesCall ==
    /\ borrowings' = [i \in Ids |->
            IF i \in StaleCodes(borrowings, now)
            THEN [borrowings[i] EXCEPT !.status = "expired"]
            ELSE borrowings[i]]
    /\ sweep' = Sweep("cleanup_expired_codes",
                      Cardinality(StaleCodes(borrowings, now)), FALSE, 0)
    /\ UNCHANGED <<now, authVars, sessVars, procs, fines, extensions, pcacheVars, raceVars, scacheVars,
                   reservations>>

\* expire_reservations.py:38  get_reservation_timeout_hours(24)
RESERVATION_TIMEOUT_HOURS == 24

\* datetime.timedelta(hours=h), in seconds
Hours(h) == h * 3600

\* a Reservation as reserve_book creates it
NewReservation(u, t) == [user |-> u, status |-> "pending", created_at |-> t]

\* reserve_book: the existing_reservation test and the create
ReserveBook(u) ==
    /\ Len(reservations) < MaxReservations
    /\ ~\E i \in DOMAIN reservations :
            /\ reservations[i].user = u
            /\ reservations[i].status \in {"pending", "confirmed"}
    /\ reservations' = Append(reservations, NewReservation(u, now))
    /\ UNCHANGED <<now, authVars, sessVars, borrowVars, fines, extensions, pcacheVars, raceVars, scacheVars,
                   sweep>>

\* approve_reservation by a librarian: pending becomes confirmed
ApproveReservation(i) ==
    /\ i \in DOMAIN reservations
    /\ reservations[i].status = "pending"
    /\ reservations' = [reservations EXCEPT ![i].status = "confirmed"]
    /\ UNCHANGED <<now, authVars, sessVars, borrowVars, fines, extensions, pcacheVars, raceVars, scacheVars,
                   sweep>>

\* the --timeout-hours a run is given; 0 stands for the option left out
TimeoutOptions == {0, 48}

\* expire_reservations: the option when it is given (and not 0), else the
\* reservation_timeout_hours setting
TimeoutHours(st, option) ==
    IF option # 0 THEN option
    ELSE GetSetting(st, "reservation_timeout_hours",
                    PyInt(RESERVATION_TIMEOUT_HOURS), "number").i

\* filter(status='confirmed', created_at__lt=now - timedelta(hours=hours))
StaleReservations(rs, t, hours) ==
    {i \in DOMAIN rs : /\ rs[i].status = "confirmed"
                       /\ rs[i].created_at < t - Hours(hours)}

\* manage.py expire_reservations [--dry-run] [--timeout-hours N]
ExpireReservations(dry_run, option) ==
    /\ reservations' = [i \in DOMAIN reservations |->
            IF ~dry_run
               /\ i \in StaleReservations(reservations, now,
                                          TimeoutHours(settings, option))
            THEN [reservations[i] EXCEPT !.status = "expired"]
            ELSE reservations[i]]
    /\ sweep' = Sweep("expire_reservations",
                      Cardinality(StaleReservations(reservations, now,
                                      TimeoutHours(settings, option))),
                      dry_run, TimeoutHours(settings, option))
    /\ UNCHANGED <<now, authVars, sessVars, borrowVars, fines, extensions, pcacheVars, raceVars, scacheVars>>

\* no sweep has run
SweepIdle ==
    /\ reservations = <<>>
    /\ sweep = Sweep("init", 0, FALSE, 0)

\* the clock of the sweep runs
SweepTick(d) ==
    /\ d < Days(1) => now % Days(1) < MaxExpirySeconds
    /\ d >= Days(1) => Date(now) < MaxExpiryDays
    /\ now' = now + d
    /\ UNCHANGED <<authVars, sessVars, borrowVars, fines, extensions, pcacheVars, raceVars, scacheVars,
                   reservations, sweep>>

----------------------------------------------------------------------------
(* users/models.py, admin_dashboard/middleware.py, admin_dashboard/views.py: *)
(* the password policy of one account and its session                        *)

\* users/models.py:155  timedelta(days=180)
PASSWORD_EXPIRY_DAYS == 180
\* users/models.py:177  timedelta(minutes=1), in seconds
ADMIN_GRACE_SECONDS == 60

\* is_password_expired with the password expiring on its 180th day
IsPasswordExpiredOnTheDay(usr, t) ==
    IF usr.role \notin {"admin", "manager"} THEN FALSE
    ELSE IF usr.last_password_change = None THEN TRUE
    ELSE t >= usr.last_password_change + Days(PASSWORD_EXPIRY_DAYS)

\* User.is_password_expired
IsPasswordExpired(usr, t) ==
    IF usr.role \notin {"admin", "manager"} THEN FALSE
    ELSE IF usr.last_password_change = None THEN TRUE
    ELSE t > usr.last_password_change + Days(PASSWORD_EXPIRY_DAYS)

\* session.get('admin_login_time') of a session without the key
NoLoginTime == [present |-> FALSE, date_time |-> 0, offset |-> ""]

\* datetime.isoformat(): the date and time fields, then the UTC offset
IsoFormat(t) == [present |-> TRUE, date_time |-> t, offset |-> "+00:00"]

\* str.replace('Z', '+00:00')
ReplaceZ(str) == IF str.offset = "Z" THEN [str EXCEPT !.offset = "+00:00"]
                 ELSE str

\* datetime.fromisoformat: the instant the fields and the offset denote
FromIsoFormat(str) == str.date_time

\* a logged-out session: logout() flushes the session's data
NoPSession == [logged_in |-> FALSE, admin_login_time |-> NoLoginTime]

\* should_force_password_change with the delay given to every role
ShouldForcePasswordChangeAnyRole(usr, hasRequest, sessn, t) ==
    IF ~(usr.password_change_required \/ IsPasswordExpired(usr, t))
    THEN FALSE
    ELSE IF ~hasRequest THEN TRUE
    ELSE IF sessn.admin_login_time.present
    THEN t >= FromIsoFormat(ReplaceZ(sessn.admin_login_time))
                + ADMIN_GRACE_SECONDS
    ELSE TRUE

\* User.should_force_password_change(request); hasRequest is false for the
\* call without a request
ShouldForcePasswordChange(usr, hasRequest, sessn, t) ==
    IF usr.role # "admin"
    THEN usr.password_change_required \/ IsPasswordExpired(usr, t)
    ELSE IF ~(usr.password_change_required \/ IsPasswordExpired(usr, t))
    THEN FALSE
    ELSE IF ~hasRequest THEN TRUE
    ELSE IF sessn.admin_login_time.present
    THEN t >= FromIsoFormat(ReplaceZ(sessn.admin_login_time))
                + ADMIN_GRACE_SECONDS
    ELSE TRUE

\* User.get_password_change_remaining_seconds(request)
GetPasswordChangeRemainingSeconds(usr, hasRequest, sessn, t) ==
    IF usr.role # "admin" \/ ~hasRequest THEN 0
    ELSE IF sessn.admin_login_time.present
    THEN LET remaining_seconds ==
                 FromIsoFormat(ReplaceZ(sessn.admin_login_time))
                     + ADMIN_GRACE_SECONDS - t
         IN  IF remaining_seconds > 0 THEN remaining_seconds ELSE 0
    ELSE 0

\* the paths a request asks for: one of exempt_urls, or any other
Urls == {"exempt", "other"}

\* PasswordPolicyMiddleware.__call__: what the check found and whether the
\* request is answered with the redirect to change_password.  The second
\* reading of the clock in get_password_change_remaining_seconds is not
\* earlier than the first, so it is taken at the same instant
PasswordPolicyOutcome(usr, sessn, url, t) ==
    LET force == ShouldForcePasswordChange(usr, TRUE, sessn, t)
        remaining == GetPasswordChangeRemainingSeconds(usr, TRUE, sessn, t)
    IN  IF ~sessn.logged_in \/ url = "exempt"
        THEN [checked |-> FALSE, force |-> FALSE, redirect |-> FALSE,
              msg |-> ""]
        ELSE IF ~force
        THEN [checked |-> TRUE, force |-> FALSE, redirect |-> FALSE,
              msg |-> ""]
        ELSE IF usr.role = "admin" /\ sessn.admin_login_time.present
                /\ remaining > 0
        THEN [checked |-> TRUE, force |-> TRUE, redirect |-> FALSE,
              msg |-> "change_required_soon"]
        ELSE [checked |-> TRUE, force |-> TRUE, redirect |-> TRUE,
              msg |-> "password_expired"]

\* the record of a password policy call: the row, the session and the
\* instant it saw, and what it answered
PResp(op, url, usr, sessn, t, out) ==
    [op |-> op, url |-> url, usr |-> usr, sessn |-> sessn, t |-> t,
     out |-> out]

NoPUser == [role |-> "member", password_change_required |-> FALSE,
            last_password_change |-> None]
NoPOutcome == [checked |-> FALSE, force |-> FALSE, redirect |-> FALSE,
               msg |-> ""]
NoPResp == PResp("init", "", NoPUser, NoPSession, 0, NoPOutcome)

\* login_view, the branch of a successful authentication: mark_admin_login
\* for an admin, then login(), which keeps the session's data
PolicyLogin ==
    /\ psession' = [logged_in |-> TRUE,
                    admin_login_time |->
                        IF account.role = "admin" THEN IsoFormat(now)
                        ELSE psession.admin_login_time]
    /\ presp' = PResp("login", "", NoPUser, NoPSession, 0, NoPOutcome)
    /\ UNCHANGED <<now, authVars, mw, sess, rows, cache, sresp, cfgVars,
                   account, borrowVars, loanVars>>

\* logout_view: logout() flushes the session
PolicyLogout ==
    /\ psession.logged_in
    /\ psession' = NoPSession
    /\ presp' = PResp("logout", "", NoPUser, NoPSession, 0, NoPOutcome)
    /\ UNCHANGED <<now, authVars, mw, sess, rows, cache, sresp, cfgVars,
                   account, borrowVars, loanVars>>

\* a request of the session through PasswordPolicyMiddleware
PolicyRequest(url) ==
    /\ pmw = "basic"
    /\ presp' = PResp("request", url, account, psession, now,
                      PasswordPolicyOutcome(account, psession, url, now))
    /\ UNCHANGED <<now, authVars, mw, sess, rows, cache, sresp, cfgVars,
                   account, psession, borrowVars, loanVars>>

\* OptimizedPasswordPolicyMiddleware._check_password_policy
CheckPasswordPolicy(usr, sessn, url, t) ==
    IF url = "exempt" THEN FALSE
    ELSE ShouldForcePasswordChange(usr, TRUE, sessn, t)

\* OptimizedPasswordPolicyMiddleware.__call__: the verdict is read from
\* password_policy_{user.id} while the entry lives, else computed for this
\* request's path and stored for SESSION_CHECK_CACHE_TIMEOUT seconds
OptimizedPolicyOutcome(usr, sessn, c, url, t) ==
    IF ~sessn.logged_in
    THEN [checked |-> FALSE, force |-> FALSE, redirect |-> FALSE,
          msg |-> "", cache |-> c]
    ELSE IF CacheHit(c, t)
    THEN [checked |-> FALSE, force |-> c.val = 1, redirect |-> c.val = 1,
          msg |-> IF c.val = 1 THEN "password_expired" ELSE "",
          cache |-> c]
    ELSE [checked |-> TRUE,
          force |-> CheckPasswordPolicy(usr, sessn, url, t),
          redirect |-> CheckPasswordPolicy(usr, sessn, url, t),
          msg |-> IF CheckPasswordPolicy(usr, sessn, url, t)
                  THEN "password_expired" ELSE "",
          cache |-> CacheSet(IF CheckPasswordPolicy(usr, sessn, url, t)
                             THEN 1 ELSE 0,
                             SESSION_CHECK_CACHE_TIMEOUT, t)]

\* a request of the session through OptimizedPasswordPolicyMiddleware
PolicyRequestOptimized(url) ==
    /\ pmw = "optimized"
    /\ presp' = PResp("request", url, account, psession, now,
                      [k \in {"checked", "force", "redirect", "msg"} |->
                          OptimizedPolicyOutcome(account, psession, pcache,
                                                 url, now)[k]])
    /\ pcache' = OptimizedPolicyOutcome(account, psession, pcache, url,
                                        now).cache
    /\ UNCHANGED <<now, authVars, mw, sess, rows, cache, sresp, cfgVars,
                   account, psession, borrowVars, fines, extensions,
                   sweepVars, pmw, raceVars, scacheVars>>

\* should_force_password_change called with or without a request
ShouldForceCall(hasRequest) ==
    /\ presp' = PResp("should_force", IF hasRequest THEN "other" ELSE "",
                      account, psession, now,
                      [checked |-> TRUE,
                       force |-> ShouldForcePasswordChange(account,
                                     hasRequest, psession, now),
                       redirect |-> FALSE, msg |-> ""])
    /\ UNCHANGED <<now, authVars, mw, sess, rows, cache, sresp, cfgVars,
                   account, psession, borrowVars, loanVars>>

\* is_password_expired called on the account
IsPasswordExpiredCall ==
    /\ presp' = PResp("is_password_expired", "", account, psession, now,
                      [ret |-> IsPasswordExpired(account, now)])
    /\ UNCHANGED <<now, authVars, mw, sess, rows, cache, sresp, cfgVars,
                   account, psession, borrowVars, loanVars>>

\* User.mark_password_changed
MarkPasswordChanged(usr, t) ==
    [usr EXCEPT !.last_password_change = t,
                !.password_change_required = FALSE]

\* change_password, a valid POST: form.save and mark_password_changed, then
\* session.pop('admin_login_time') for an admin, then AuditLog.objects.create
\* outside any try. When the create raises the view ends in a server error:
\* the rows saved before it stay, the session changes of the request are
\* not saved.
ChangePassword(auditOk) ==
    /\ psession.logged_in
    /\ account' = MarkPasswordChanged(account, now)
    /\ psession' = IF auditOk /\ account.role = "admin"
                   THEN [psession EXCEPT !.admin_login_time = NoLoginTime]
                   ELSE psession
    /\ presp' = PResp("change_password", "", account, psession, now,
                      [NoPOutcome EXCEPT
                          !.redirect = auditOk,
                          !.msg = IF auditOk THEN "password_changed"
                                  ELSE "server_error"])
    /\ UNCHANGED <<now, authVars, mw, sess, rows, cache, sresp, cfgVars,
                   borrowVars, loanVars>>

\* User.force_password_change
ForcePasswordChange ==
    /\ ~account.password_change_required
    /\ account' = [account EXCEPT !.password_change_required = TRUE]
    /\ presp' = PResp("force_password_change", "", NoPUser, NoPSession, 0,
                      NoPOutcome)
    /\ UNCHANGED <<now, authVars, mw, sess, rows, cache, sresp, cfgVars,
                   psession, borrowVars, loanVars>>

\* edit_user by an admin: the account gets another role
EditUser(new_role) ==
    /\ new_role # account.role
    /\ account' = [account EXCEPT !.role = new_role]
    /\ presp' = PResp("edit_user", "", NoPUser, NoPSession, 0, NoPOutcome)
    /\ UNCHANGED <<now, authVars, mw, sess, rows, cache, sresp, cfgVars,
                   psession, borrowVars, loanVars>>

\* the clock of the password policy runs: half the grace period, and the
\* validity of a password
PolicyDeltas == {30, Days(PASSWORD_EXPIRY_DAYS)}

PolicyTick(d) ==
    /\ now + d <= MaxPolicyNow
    /\ d < Days(1) => (now % Days(1)) + d <= MaxPolicySeconds
    /\ now' = now + d
    /\ presp' = PResp("tick", "", NoPUser, NoPSession, 0, NoPOutcome)
    /\ UNCHANGED <<authVars, mw, sess, rows, cache, sresp, cfgVars,
                   account, psession, borrowVars, loanVars>>

----------------------------------------------------------------------------
(* users/views.py login_view as concurrent requests: each request reads    *)
(* the User row, and later authenticates and saves its own copy             *)

\* a login_view request that has not started
IdleLogin == [pc |-> "idle", u |-> "", pw |-> FALSE, user |-> NewUser,
              msg |-> ""]

RaceIdle ==
    /\ logins = [p \in Procs |-> IdleLogin]
    /\ evaluated = [u \in AuthUsers |-> 0]

\* login_view up to the lock test: User.objects.get(username=...) and
\* user.is_account_locked(), which saves the row when the lock has run out
LoginViewGet(p, u, pw) ==
    /\ logins[p].pc \in {"idle", "done"}
    /\ evaluated[u] < MaxFailed
    /\ users' = [users EXCEPT ![u] = IsAccountLocked(users[u], now).user]
    /\ evaluated' = [evaluated EXCEPT
                        ![u] = IF users'[u] # users[u] THEN 0 ELSE @]
    /\ logins' = [logins EXCEPT ![p] =
                     IF IsAccountLocked(users[u], now).ret
                     THEN [pc |-> "done", u |-> u, pw |-> FALSE,
                           user |-> NewUser, msg |-> "locked"]
                     ELSE [pc |-> "authenticate", u |-> u, pw |-> pw,
                           user |-> users'[u], msg |-> ""]]
    /\ resp' = Resp("login_view_get", u, pw, FALSE, logins'[p].msg)
    /\ UNCHANGED <<now, role, backends, streak, sessVars, borrowVars, fines,
                   extensions, sweepVars, pcacheVars, scacheVars>>

\* the row login_view leaves: authenticate() on the row as it is now, then
\* reset_lock_status on the authenticated user, or
\* increment_failed_attempts on the copy the request read at its start
LoginViewPostRow(l, row, rl, bs, t) ==
    IF Authenticate(bs, row, l.pw, t).ok
    THEN ResetLockStatus(Authenticate(bs, row, l.pw, t).db)
    ELSE IF rl \in AFFECTED_USER_ROLES
    THEN IncrementFailedAttempts(l.user, rl, t)
    ELSE Authenticate(bs, row, l.pw, t).db

\* login_view from authenticate() to the response
LoginViewPost(p) ==
    /\ logins[p].pc = "authenticate"
    /\ users' = [users EXCEPT ![logins[p].u] =
                    LoginViewPostRow(logins[p], @, role[logins[p].u],
                                     backends, now)]
    /\ evaluated' = [evaluated EXCEPT ![logins[p].u] =
                        IF Authenticate(backends, users[logins[p].u],
                                        logins[p].pw, now).ok
                        THEN 0 ELSE @ + 1]
    /\ logins' = [logins EXCEPT ![p] =
                     [@ EXCEPT !.pc = "done", !.user = NewUser, !.pw = FALSE,
                               !.msg = IF evaluated'[logins[p].u] = 0
                                       THEN "welcome" ELSE "failed"]]
    /\ resp' = Resp("login_view_post", logins[p].u, logins[p].pw,
                    evaluated'[logins[p].u] = 0, logins'[p].msg)
    /\ UNCHANGED <<now, role, backends, streak, sessVars, borrowVars, fines,
                   extensions, sweepVars, pcacheVars, scacheVars>>

----------------------------------------------------------------------------
(* admin_dashboard/views.py and utils/system_settings.py: the admin pages  *)
(* that store a setting or a timeout, and get_setting with its cache        *)

\* utils/system_settings.py:24  CACHE_TIMEOUT = 300
CACHE_TIMEOUT == 300

\* the values an admin posts to system_settings for a timeout key
PostedSettings == {"20", "0"}

\* the key the admin posts to and the reads ask for
PostedKey == "session_timeout_minutes"

\* cache.get(cache_key) is None
NoCached == [val |-> PyNone, exp |-> None]

\* a get_setting call that has not started
IdleRead == [pc |-> "idle", value |-> PyNone, ret |-> PyNone, from |-> ""]

SettingsCacheIdle ==
    /\ scache = NoCached
    /\ reads = [p \in Procs |-> IdleRead]

\* system_settings, a POST with a key and a value: the value is stored as
\* it was posted; the post_save receiver and the view call
\* invalidate_cache(key)
SystemSettingsPost(value) ==
    /\ settings.up
    /\ settings' = [settings EXCEPT !.rows[PostedKey] = PyStr(value)]
    /\ scache' = NoCached
    /\ sresp' = SResp("system_settings", "", NoOutcome, TRUE)
    /\ UNCHANGED <<now, authVars, mw, sess, rows, cache, cresp, polVars,
                   borrowVars, fines, extensions, sweepVars, pcacheVars,
                   raceVars, reads>>

\* delete_setting, a POST: invalidate_cache(key), setting.delete() and the
\* post_delete receiver
DeleteSetting ==
    /\ settings.up
    /\ settings.rows[PostedKey] # NoSetting
    /\ settings' = [settings EXCEPT !.rows[PostedKey] = NoSetting]
    /\ scache' = NoCached
    /\ sresp' = SResp("delete_setting", "", NoOutcome, TRUE)
    /\ UNCHANGED <<now, authVars, mw, sess, rows, cache, cresp, polVars,
                   borrowVars, fines, extensions, sweepVars, pcacheVars,
                   raceVars, reads>>

\* admin_dashboard/views.py:751  timeout_minutes < 5
MIN_TIMEOUT_MINUTES == 5
\* admin_dashboard/views.py:751  timeout_minutes > 480
MAX_TIMEOUT_MINUTES == 480

\* session_management, action update_timeout: int(timeout_minutes), a
\* ValueError or a value outside 5..480 changing nothing; else every active
\* UserSession row of the user gets the value
SessionManagementPost(posted) ==
    /\ rows' = IF ParseDuration(posted) = None
                  \/ ParseDuration(posted) < MIN_TIMEOUT_MINUTES
                  \/ ParseDuration(posted) > MAX_TIMEOUT_MINUTES
               THEN rows
               ELSE [sk \in SessionKeys |->
                       IF rows[sk].exists /\ rows[sk].is_active
                       THEN [rows[sk] EXCEPT
                                !.timeout_minutes = ParseDuration(posted)]
                       ELSE rows[sk]]
    /\ sresp' = SResp("session_management", "", NoOutcome, TRUE)
    /\ UNCHANGED <<now, authVars, mw, sess, cache, cfgVars, polVars,
                   borrowVars, loanVars>>

\* get_setting up to the store: cache.get(cache_key), and when it finds
\* nothing SystemSetting.objects.get(key=key); a cached value is converted
\* and returned, a missing row or a failing store returns the default
GetSettingRead(p, default) ==
    /\ reads[p].pc \in {"idle", "done"}
    /\ reads' = [reads EXCEPT ![p] =
                    IF CacheHit(scache, now)
                    THEN [pc |-> "done", value |-> PyNone,
                          ret |-> ConvertValue(scache.val, "number", default),
                          from |-> "cache"]
                    ELSE IF ~settings.up
                            \/ settings.rows[PostedKey] = NoSetting
                    THEN [pc |-> "done", value |-> PyNone, ret |-> default,
                          from |-> "default"]
                    ELSE [pc |-> "set", value |-> settings.rows[PostedKey],
                          ret |-> default, from |-> "store"]]
    /\ sresp' = SResp("get_setting", p, NoOutcome, TRUE)
    /\ UNCHANGED <<now, authVars, mw, sess, rows, cache, cfgVars, polVars,
                   borrowVars, fines, extensions, sweepVars, pcacheVars,
                   raceVars, scache>>

\* get_setting after the store answered: cache.set(cache_key, value,
\* CACHE_TIMEOUT) and the converted value returned
GetSettingSet(p) ==
    /\ reads[p].pc = "set"
    /\ scache' = [val |-> reads[p].value, exp |-> now + CACHE_TIMEOUT]
    /\ reads' = [reads EXCEPT ![p] =
                    [pc |-> "done", value |-> PyNone,
                     ret |-> ConvertValue(reads[p].value, "number",
                                          reads[p].ret),
                     from |-> "store"]]
    /\ sresp' = SResp("get_setting", p, NoOutcome, TRUE)
    /\ UNCHANGED <<now, authVars, mw, sess, rows, cache, cfgVars, polVars,
                   borrowVars, fines, extensions, sweepVars, pcacheVars,
                   raceVars>>

\* the clock of the settings runs: the life of a cache entry
SettingsTick ==
    /\ now + CACHE_TIMEOUT <= MaxSettingsNow
    /\ now' = now + CACHE_TIMEOUT
    /\ sresp' = SResp("tick", "", NoOutcome, TRUE)
    /\ UNCHANGED <<authVars, mw, sess, rows, cache, cfgVars, polVars,
                   borrowVars, loanVars>>

----------------------------------------------------------------------------
(* The runs: the lockout engine (Spec), the session middlewares            *)
(* (SpecSession) and the borrowing workflow (SpecBorrow); each leaves the   *)
(* state of the other two at rest                                           *)

SessIdle ==
    /\ mw = "basic"
    /\ sess = [sk \in SessionKeys |-> NewSession]
    /\ rows = [sk \in SessionKeys |-> NoRow]
    /\ cache = EmptyCache
    /\ sresp = SResp("init", "", NoOutcome, TRUE)
    /\ settings = NoSettings
    /\ cresp = NoCResp

AuthIdle ==
    /\ users = [u \in AuthUsers |-> NewUser]
    /\ role = [u \in AuthUsers |-> "member"]
    /\ backends = <<"model">>
    /\ resp = Resp("init", "", FALSE, FALSE, "")
    /\ streak = [u \in AuthUsers |-> [n |-> 0, at |-> None]]

\* the policy middleware keeps no cache
PolicyCacheIdle ==
    /\ pmw = "basic"
    /\ pcache = NoEntry

PolicyIdle ==
    /\ account = NoPUser
    /\ psession = NoPSession
    /\ presp = NoPResp

BorrowIdle ==
    /\ borrowings = <<>>
    /\ procs = [p \in Procs |-> IdleProc]
    /\ fines = <<>>
    /\ extensions = <<>>
    /\ SweepIdle
    /\ PolicyCacheIdle
    /\ RaceIdle
    /\ SettingsCacheIdle

Init ==
    /\ now = 0
    /\ users = [u \in AuthUsers |-> NewUser]
    /\ role \in [AuthUsers -> AuthRoles]
    /\ backends \in BackendConfigs
    /\ resp = Resp("init", "", FALSE, FALSE, "")
    /\ streak = [u \in AuthUsers |-> [n |-> 0, at |-> None]]
    /\ SessIdle
    /\ PolicyIdle
    /\ BorrowIdle

Next ==
    \/ \E u \in AuthUsers : IncrementCall(u)
    \/ \E u \in AuthUsers : IsLockedCall(u)
    \/ \E u \in AuthUsers, pw \in BOOLEAN : LoginView(u, pw)
    \/ \E u \in AuthUsers, pw \in BOOLEAN : BackendAuthenticate(u, pw)
    \/ \E u \in AuthUsers, d \in LockDurations : ManualLock(u, d)
    \/ \E u \in AuthUsers : ManualUnlock(u)
    \/ \E d \in AuthDeltas : AuthTick(d)

Spec == Init /\ [][Next]_vars

\* the runs of the lock administration: failed attempts, the lock test and
\* the posts to unlock_accounts
InitUnlock ==
    /\ now = 0
    /\ users = [u \in AuthUsers |-> NewUser]
    /\ role \in [AuthUsers -> AuthRoles]
    /\ backends = <<"model">>
    /\ resp = Resp("init", "", FALSE, FALSE, "")
    /\ streak = [u \in AuthUsers |-> [n |-> 0, at |-> None]]
    /\ SessIdle
    /\ PolicyIdle
    /\ BorrowIdle

NextUnlock ==
    \/ \E u \in AuthUsers : IncrementCall(u)
    \/ \E u \in AuthUsers : IsLockedCall(u)
    \/ \E actor \in Roles, action \in PostedActions, u \in AuthUsers,
          posted \in PostedDurations : UnlockAccounts(actor, action, u, posted)
    \/ UnlockTick(Minutes(LOCK_DURATION_MINUTES))

SpecUnlock == InitUnlock /\ [][NextUnlock]_vars

\* the runs of logins against a database that may refuse a save
NextPersist ==
    \/ \E u \in AuthUsers, pw \in BOOLEAN, failAt \in FailPoints :
          LoginViewSaveFails(u, pw, failAt)
    \/ \E d \in AuthDeltas : AuthTick(d)

SpecPersist == Init /\ [][NextPersist]_vars

InitSession ==
    /\ now = 0
    /\ AuthIdle
    /\ mw \in Middlewares
    /\ sess = [sk \in SessionKeys |-> NewSession]
    /\ rows = [sk \in SessionKeys |-> NoRow]
    /\ cache = EmptyCache
    /\ sresp = SResp("init", "", NoOutcome, TRUE)
    /\ settings = NoSettings
    /\ cresp = NoCResp
    /\ PolicyIdle
    /\ BorrowIdle

NextSession ==
    \/ \E sk \in SessionKeys : SessLogin(sk)
    \/ \E sk \in SessionKeys, auditOk \in BOOLEAN : SessRequest(sk, auditOk)
    \/ \E sk \in SessionKeys, auditOk \in BOOLEAN : SessLogout(sk, auditOk)
    \/ \E d \in SessDeltas : SessTick(d)

SpecSession == InitSession /\ [][NextSession]_vars

\* the runs of one session with an admin setting timeouts
NextTimeoutAdmin ==
    \/ SessLogin("s1")
    \/ SessRequest("s1", TRUE)
    \/ \E value \in PostedSettings : SystemSettingsPost(value)
    \/ \E posted \in PostedDurations : SessionManagementPost(posted)
    \/ \E d \in SessDeltas : SessTick(d)

SpecTimeoutAdmin == InitSession /\ [][NextTimeoutAdmin]_vars

\* the runs of concurrent get_setting calls while an admin changes the
\* setting
NextSettings ==
    \/ \E p \in Procs, default \in Defaults : GetSettingRead(p, default)
    \/ \E p \in Procs : GetSettingSet(p)
    \/ \E value \in PostedSettings : SystemSettingsPost(value)
    \/ DeleteSetting
    \/ SettingsTick

SpecSettings == InitSession /\ [][NextSettings]_vars

InitConfig ==
    /\ now = 0
    /\ AuthIdle
    /\ mw = "basic"
    /\ sess = [sk \in SessionKeys |-> NewSession]
    /\ rows = [sk \in SessionKeys |-> NoRow]
    /\ cache = EmptyCache
    /\ sresp = SResp("init", "", NoOutcome, TRUE)
    /\ settings \in
         {[up |-> up,
           rows |-> [k \in SettingKeys \cup {StoredFineKey} |->
                        IF k \in SettingKeys THEN timeouts[k] ELSE rate]] :
            up \in BOOLEAN,
            timeouts \in [SettingKeys ->
                            {PyStr(str) : str \in StoredStrings}
                                \cup {NoSetting}],
            rate \in {PyStr("20"), NoSetting}}
    /\ cresp = NoCResp
    /\ PolicyIdle
    /\ BorrowIdle

NextConfig ==
    \/ \E key \in AskedKeys, default \in Defaults, type \in SettingTypes :
            GetSettingCall(key, default, type)
    \/ \E value \in ConvertedValues, default \in Defaults,
            type \in SettingTypes : ConvertValueCall(value, default, type)
    \/ \E rl \in Roles, row \in AskingRows : GetUserTimeoutCall(rl, row)
    \/ \E days_overdue \in OverdueDays :
            CalculateOverdueFineCall(days_overdue)

SpecConfig == InitConfig /\ [][NextConfig]_vars

InitPolicy ==
    /\ now = 0
    /\ AuthIdle
    /\ SessIdle
    /\ account \in [role : Roles, password_change_required : BOOLEAN,
                     last_password_change : {None, 0}]
    /\ psession = NoPSession
    /\ presp = NoPResp
    /\ BorrowIdle

NextPolicy ==
    \/ PolicyLogin
    \/ PolicyLogout
    \/ \E url \in Urls : PolicyRequest(url)
    \/ \E hasRequest \in BOOLEAN : ShouldForceCall(hasRequest)
    \/ IsPasswordExpiredCall
    \/ \E auditOk \in BOOLEAN : ChangePassword(auditOk)
    \/ ForcePasswordChange
    \/ \E new_role \in Roles : EditUser(new_role)
    \/ \E d \in PolicyDeltas : PolicyTick(d)

SpecPolicy == InitPolicy /\ [][NextPolicy]_vars

\* the password policy runs with either policy middleware installed
InitPolicyCache ==
    /\ now = 0
    /\ AuthIdle
    /\ SessIdle
    /\ account \in [role : Roles, password_change_required : BOOLEAN,
                     last_password_change : {None, 0}]
    /\ psession = NoPSession
    /\ presp = NoPResp
    /\ borrowings = <<>>
    /\ procs = [p \in Procs |-> IdleProc]
    /\ fines = <<>>
    /\ extensions = <<>>
    /\ SweepIdle
    /\ RaceIdle
    /\ SettingsCacheIdle
    /\ pmw \in Middlewares
    /\ pcache = NoEntry

NextPolicyCache ==
    \/ PolicyLogin
    \/ PolicyLogout
    \/ \E url \in Urls : PolicyRequest(url)
    \/ \E url \in Urls : PolicyRequestOptimized(url)
    \/ \E auditOk \in BOOLEAN : ChangePassword(auditOk)
    \/ ForcePasswordChange
    \/ \E d \in PolicyDeltas : PolicyTick(d)

SpecPolicyCache == InitPolicyCache /\ [][NextPolicyCache]_vars

\* the clock of the concurrent logins: the time a lock lasts
RaceTick ==
    /\ now + Minutes(LOCK_DURATION_MINUTES) <= MaxRaceNow
    /\ now' = now + Minutes(LOCK_DURATION_MINUTES)
    /\ resp' = Resp("tick", "", FALSE, FALSE, "")
    /\ UNCHANGED <<users, role, backends, streak, sessVars, borrowVars,
                   loanVars>>

\* the runs of concurrent logins on one account of an affected role
InitRace ==
    /\ Init
    /\ \A u \in AuthUsers : role[u] \in AFFECTED_USER_ROLES

NextRace ==
    \/ \E p \in Procs, u \in AuthUsers, pw \in BOOLEAN : LoginViewGet(p, u, pw)
    \/ \E p \in Procs : LoginViewPost(p)
    \/ RaceTick

SpecRace == InitRace /\ [][NextRace]_vars

\* the expiry runs start from one request as borrow_book leaves it
InitExpiry ==
    /\ now = 0
    /\ AuthIdle
    /\ SessIdle
    /\ PolicyIdle
    /\ borrowings = <<NewBorrowing("m1", "b1", 0)>>
    /\ procs = [p \in Procs |-> IdleProc]
    /\ fines = <<>>
    /\ extensions = <<>>
    /\ SweepIdle
    /\ PolicyCacheIdle
    /\ RaceIdle
    /\ SettingsCacheIdle

NextExpiry ==
    \/ \E p \in Procs, bid \in 1..MaxBorrowings : ApproveGet(p, bid)
    \/ \E p \in Procs : ApproveCheckBook(p)
    \/ \E p \in Procs, c \in Codes : GeneratePickupCode(p, c)
    \/ \E p \in Procs : ApproveSave(p)
    \/ \E p \in Procs, bid \in 1..MaxBorrowings : IsCodeExpiredCall(p, bid)
    \/ \E d \in ExpiryDeltas : ExpiryTick(d)

SpecExpiry == InitExpiry /\ [][NextExpiry]_vars

\* the lifecycle runs: one request as borrow_book leaves it, and every
\* operation of the workflow on it
NextLifecycle ==
    \/ \E p \in Procs, bid \in 1..MaxBorrowings : ApproveGet(p, bid)
    \/ \E p \in Procs : ApproveCheckBook(p)
    \/ \E p \in Procs, c \in Codes : GeneratePickupCode(p, c)
    \/ \E p \in Procs : ApproveSave(p)
    \/ \E p \in Procs, bid \in 1..MaxBorrowings : RejectGet(p, bid)
    \/ \E p \in Procs : RejectSave(p)
    \/ \E p \in Procs, bid \in 1..MaxBorrowings, u \in Members : CancelGet(p, bid, u)
    \/ \E p \in Procs : CancelDelete(p)
    \/ \E p \in Procs, c \in Codes : PickupGet(p, c)
    \/ \E p \in Procs : PickupSave(p)
    \/ CleanupExpiredCodes
    \/ \E p \in Procs, bid \in 1..MaxBorrowings : ReturnGet(p, bid)
    \/ \E p \in Procs : ReturnSave(p)
    \/ \E p \in Procs : ReturnFineCheck(p)
    \/ \E p \in Procs : ReturnFineCreate(p)
    \/ LifecycleTick

SpecLifecycle == InitExpiry /\ [][NextLifecycle]_vars

\* the sweep runs: a request approved by one librarian, reservations being
\* made and confirmed, and the two sweeps run at any moment
NextSweep ==
    \/ \E bid \in 1..MaxBorrowings : ApproveGet("p1", bid)
    \/ ApproveCheckBook("p1")
    \/ \E c \in Codes : GeneratePickupCode("p1", c)
    \/ ApproveSave("p1")
    \/ CleanupExpiredCodesCall
    \/ ReserveBook("m1")
    \/ \E i \in 1..MaxReservations : ApproveReservation(i)
    \/ \E dry_run \in BOOLEAN, option \in TimeoutOptions :
            ExpireReservations(dry_run, option)
    \/ \E d \in ExpiryDeltas : SweepTick(d)

SpecSweep == InitExpiry /\ [][NextSweep]_vars

\* the loan runs start from a book picked up at 0, due after the loan period
InitLoan ==
    /\ now = 0
    /\ AuthIdle
    /\ SessIdle
    /\ PolicyIdle
    /\ borrowings = <<[NewBorrowing("m1", "b1", 0) EXCEPT
                          !.status = "borrowed", !.approved_date = 0,
                          !.pickup_date = 0,
                          !.due_date = Date(0) + LOAN_PERIOD_DAYS]>>
    /\ procs = [p \in Procs |-> IdleProc]
    /\ fines = <<>>
    /\ extensions = <<>>
    /\ SweepIdle
    /\ PolicyCacheIdle
    /\ RaceIdle
    /\ SettingsCacheIdle

NextLoan ==
    \/ \E p \in Procs, bid \in 1..MaxBorrowings : ReturnGet(p, bid)
    \/ \E p \in Procs : ReturnSave(p)
    \/ \E p \in Procs : ReturnFineCheck(p)
    \/ \E p \in Procs : ReturnFineCreate(p)
    \/ \E p \in Procs, bid \in 1..MaxBorrowings, premium \in BOOLEAN :
            ExtRequestCheck(p, bid, premium)
    \/ \E p \in Procs : ExtRequestCreate(p)
    \/ \E p \in Procs, eid \in 1..MaxBorrowings : ExtApproveGet(p, eid)
    \/ \E p \in Procs : ExtApproveLoad(p)
    \/ \E p \in Procs : ExtApproveSaveBorrowing(p)
    \/ \E p \in Procs : ExtApproveSaveRequest(p)
    \/ \E p \in Procs, eid \in 1..MaxBorrowings : ExtRejectGet(p, eid)
    \/ \E p \in Procs : ExtRejectSave(p)
    \/ \E d \in LoanDeltas : LoanTick(d)

SpecLoan == InitLoan /\ [][NextLoan]_vars

InitBorrow ==
    /\ now = 0
    /\ AuthIdle
    /\ SessIdle
    /\ PolicyIdle
    /\ BorrowIdle

NextBorrow ==
    \/ \E p \in Procs, u \in Members, b \in Books : BorrowCheck(p, u, b)
    \/ \E p \in Procs : BorrowCreate(p)
    \/ \E p \in Procs, bid \in 1..MaxBorrowings : ApproveGet(p, bid)
    \/ \E p \in Procs : ApproveCheckBook(p)
    \/ \E p \in Procs, c \in Codes : GeneratePickupCode(p, c)
    \/ \E p \in Procs : ApproveSave(p)
    \/ \E p \in Procs, c \in Codes : PickupGet(p, c)
    \/ \E p \in Procs : PickupSave(p)
    \/ CleanupExpiredCodes
    \/ \E d \in BorrowDeltas : BorrowTick(d)

SpecBorrow == InitBorrow /\ [][NextBorrow]_vars

----------------------------------------------------------------------------
(* The lockout engine: properties *)

\* the account is locked at the present instant
Locked(u) == LockState(users[u], now) = "locked"

\* the calls that are login attempts
LoginOps == {"login_view", "backend_authenticate"}

\* C1: for an affected-role account that starts unlocked with
\* failed_login_attempts = 0, after k consecutive increment_failed_attempts
\* calls the counter is k; for k < MAX_FAILED_ATTEMPTS is_account_locked is
\* false; for k = MAX_FAILED_ATTEMPTS account_locked_until is the time of
\* that call plus LOCK_DURATION_MINUTES and is_account_locked is true until
\* then.
C1_LockAfterMaxAttempts ==
    \A u \in AuthUsers :
        (role[u] \in AFFECTED_USER_ROLES /\ streak[u].n \in 0..MAX_FAILED_ATTEMPTS)
        => LET usr == users[u]
               k   == streak[u].n
           IN  /\ usr.failed_login_attempts = k
               /\ k < MAX_FAILED_ATTEMPTS => ~IsAccountLocked(usr, now).ret
               /\ k = MAX_FAILED_ATTEMPTS =>
                    /\ usr.account_locked_until =
                           streak[u].at + Minutes(LOCK_DURATION_MINUTES)
                    /\ now < streak[u].at + Minutes(LOCK_DURATION_MINUTES)
                           => IsAccountLocked(usr, now).ret

C1_Witness ==
    \E u \in AuthUsers :
        /\ role[u] \in AFFECTED_USER_ROLES
        /\ resp.op = "increment_failed_attempts"
        /\ streak[u].n = MAX_FAILED_ATTEMPTS
        /\ IsAccountLocked(users[u], now).ret

\* C2: a login attempt, through login_view or through the audit backend,
\* made while now < account_locked_until never yields an authenticated
\* user, whether the password is right or wrong.
C2_LockedNeverAuthenticates ==
    (resp.op \in LoginOps /\ resp.pre = "locked") => ~resp.ret

C2_Witness ==
    /\ resp.op = "login_view"
    /\ resp.pre = "locked"
    /\ resp.pw
    /\ ~resp.ret
    /\ Locked(resp.u)

\* C6: is_account_locked called on a lock that has passed returns false,
\* clears account_locked_until and zeroes failed_login_attempts; a second
\* call right after returns false again and changes nothing.
C6_LazyUnlockIdempotent ==
    /\ [](resp.op = "is_account_locked" /\ resp.pre = "expired"
            => /\ ~resp.ret
               /\ users[resp.u].account_locked_until = None
               /\ users[resp.u].failed_login_attempts = 0)
    /\ [][(/\ resp.op = "is_account_locked"
           /\ resp.pre = "expired"
           /\ resp'.op = "is_account_locked"
           /\ resp'.u = resp.u)
          => (~resp'.ret /\ users' = users)]_vars

C6_Witness ==
    /\ resp.op = "is_account_locked"
    /\ resp.pre = "expired"
    /\ ~resp.ret
    /\ users[resp.u].failed_login_attempts = 0
    /\ users[resp.u].last_failed_attempt # None

\* C7: a failed authentication attempt on an account whose role is not
\* affected, on any path (increment_failed_attempts, login_view, the audit
\* backend), leaves failed_login_attempts, last_failed_attempt and
\* account_locked_until as they were (the lazy unlock of a lock that has
\* already passed aside), so the account is never locked by failed attempts.
C7_NonAffectedUntouched ==
    [][\A u \in AuthUsers :
        (/\ role[u] \notin AFFECTED_USER_ROLES
         /\ LockState(users[u], now) # "expired"
         /\ resp'.u = u
         /\ resp'.op \in LoginOps \cup {"increment_failed_attempts"}
         /\ ~resp'.ret)
        => users'[u] = users[u]]_vars

\* C8 as stated: one more failed attempt on a locked account, through
\* login_view or by a direct increment_failed_attempts call, leaves the
\* account locked with the same account_locked_until.
C8_LockedAttemptSameUnlockTime ==
    [][\A u \in AuthUsers :
        (/\ Locked(u)
         /\ resp'.u = u
         /\ resp'.op \in {"login_view", "increment_failed_attempts"}
         /\ ~resp'.ret)
        => /\ LockState(users'[u], now') = "locked"
           /\ users'[u].account_locked_until = users[u].account_locked_until]_vars

\* C8 amended: a failed attempt on a locked account keeps it locked.
\* Through login_view nothing of the account changes.  A direct
\* increment_failed_attempts call on an affected-role account adds one to
\* the counter and, when the new count is >= MAX_FAILED_ATTEMPTS, moves
\* account_locked_until to the time of the call + LOCK_DURATION_MINUTES
\* (otherwise leaves it); on any other account it changes nothing.
C8_LockedAttemptKeepsLocked ==
    [][\A u \in AuthUsers :
        (Locked(u) /\ resp'.u = u)
        => /\ (resp'.op = "login_view")
                => (~resp'.ret /\ users'[u] = users[u])
           /\ (resp'.op = "increment_failed_attempts")
                => /\ LockState(users'[u], now') = "locked"
                   /\ IF role[u] \in AFFECTED_USER_ROLES
                      THEN LET n == users[u].failed_login_attempts + 1
                           IN  /\ users'[u].failed_login_attempts = n
                               /\ users'[u].account_locked_until =
                                    IF n >= MAX_FAILED_ATTEMPTS
                                    THEN now + Minutes(LOCK_DURATION_MINUTES)
                                    ELSE users[u].account_locked_until
                      ELSE users'[u] = users[u]]_vars

C8_Witness ==
    /\ resp.op = "increment_failed_attempts"
    /\ resp.pre = "locked"
    /\ Locked(resp.u)
    /\ users[resp.u].failed_login_attempts > MAX_FAILED_ATTEMPTS
    /\ users[resp.u].account_locked_until = now + Minutes(LOCK_DURATION_MINUTES)
    /\ now > 0

----------------------------------------------------------------------------
(* The session timeout middlewares: properties *)

\* C4: for a session with timeout T minutes and stored last_activity L,
\* every authenticated request at time t with t - L <= T is Valid, reaches
\* the view and sets last_activity to t; every request with t - L > T is
\* TimedOut and does not reach the view.
C4_EveryRequestChecked ==
    [][\A sk \in SessionKeys :
        (sresp'.op = "request" /\ sresp'.sk = sk
            /\ sess[sk].last_activity # None)
        => LET L == sess[sk].last_activity
               T == GetUserTimeout(rows[sk], SessRole)
           IN  /\ (now - L <= Minutes(T))
                    => /\ sresp'.verdict = "Valid"
                       /\ sresp'.served
                       /\ sess'[sk].last_activity = now
               /\ (now - L > Minutes(T))
                    => /\ sresp'.verdict = "TimedOut"
                       /\ ~sresp'.served]_vars

\* C5: a request the check finds TimedOut is not passed to the view: the
\* user is logged out, the session record is marked inactive, one
\* SESSION_TIMEOUT audit event is written when the sink accepts it, and the
\* response is the redirect to login.
C5_TimedOutTerminates ==
    (sresp.op = "request" /\ sresp.verdict = "TimedOut")
    => /\ ~sresp.served
       /\ sresp.redirect
       /\ sess[sresp.sk].state = "ended"
       /\ rows[sresp.sk].exists => ~rows[sresp.sk].is_active
       /\ sresp.auditOk => sresp.audits = 1

----------------------------------------------------------------------------
(* The borrowing workflow: properties *)

\* the rows that hold book b out on loan
OnLoan(b) ==
    {i \in Ids : /\ borrowings[i].book = b
                 /\ borrowings[i].status \in {"borrowed", "overdue"}}

\* C3: in every reachable state at most one Borrowing of a book is in
\* status borrowed or overdue.
C3_OneLoanPerBook == \A b \in Books : Cardinality(OnLoan(b)) <= 1

\* the request of handler p was an approval that succeeded
Approved(p) == /\ procs[p].op = "approve"
               /\ procs[p].pc = "done"
               /\ procs[p].result = "approved"

\* C10: of the approval requests for one pending Borrowing exactly one
\* succeeds, and the pickup code its answer reports is the code the
\* Borrowing holds while it stays approved.
C10_ApprovalsSerialized ==
    /\ \A p, q \in Procs :
          (p # q /\ Approved(p) /\ Approved(q))
          => procs[p].bid # procs[q].bid
    /\ \A p \in Procs :
          (Approved(p) /\ borrowings[procs[p].bid].status = "approved")
          => borrowings[procs[p].bid].pickup_code = procs[p].code

\* handler p ends its request in this step
Finishes(p) == procs[p].pc # "done" /\ procs'[p].pc = "done"

\* C11: approve_borrowing_request changes a Borrowing only if its status is
\* pending and no other Borrowing of its book is borrowed or overdue, and
\* then sets status approved, a pickup code and approved_date = now;
\* otherwise it fails as not pending or as unavailable and leaves the table
\* as it was.
C11_ApproveOnlyPending ==
    [][\A p \in Procs :
        (Finishes(p) /\ procs'[p].op = "approve")
        => IF procs'[p].result = "approved"
           THEN LET bid == procs[p].bid
                IN  /\ borrowings[bid].status = "pending"
                    /\ ~BookBorrowed(borrowings[bid].book, bid)
                    /\ borrowings'[bid].status = "approved"
                    /\ borrowings'[bid].pickup_code # NoCode
                    /\ borrowings'[bid].approved_date = now
                    /\ \A i \in Ids \ {bid} : borrowings'[i] = borrowings[i]
           ELSE /\ borrowings' = borrowings
                /\ procs'[p].result \in {"not_pending", "unavailable"}
                /\ procs'[p].result = "not_pending"
                     => borrowings[procs'[p].bid].status # "pending"
                /\ procs'[p].result = "unavailable"
                     => BookBorrowed(borrowings[procs[p].bid].book,
                                     procs[p].bid)]_vars

\* the rows of user u for book b that are not in a terminal status
NonTerminal(u, b) ==
    {i \in Ids : /\ borrowings[i].user = u
                 /\ borrowings[i].book = b
                 /\ borrowings[i].status \in
                        {"pending", "approved", "borrowed", "overdue"}}

\* C12: in every reachable state each (user, book) pair has at most one
\* Borrowing in a non-terminal status.
C12_OneRequestPerUserBook ==
    \A u \in Members, b \in Books : Cardinality(NonTerminal(u, b)) <= 1

\* C13: in every reachable state no two Borrowings hold the same non-null
\* pickup_code, also when approvals that generated the same code run
\* together.
C13_PickupCodesUnique ==
    \A i, j \in Ids :
        (i # j /\ borrowings[i].pickup_code # NoCode)
        => borrowings[i].pickup_code # borrowings[j].pickup_code

\* two approvals generated the same code; one row holds it and the save of
\* the other was refused
C13_Witness ==
    /\ \E p \in Procs : /\ procs[p].op = "approve"
                        /\ procs[p].result = "integrity_error"
    /\ \E i \in Ids : borrowings[i].pickup_code # NoCode

\* handler p is a pickup_code_entry that holds the row its code found
PickingUp(p) == procs[p].op = "pickup" /\ procs[p].pc = "save"

\* the code of row r is past its three days at time t
PastPickupWindow(r, t) ==
    r.approved_date # None /\ t > r.approved_date + 3 * 86400

\* C14: a Borrowing becomes borrowed only through a pickup_code_entry whose
\* code found it approved with that code and within its window; the entry
\* sets due_date = pickup day + loan_period_days and pickup_date and clears
\* the code, so no borrowed row keeps a code.  An entry that finds the code
\* expired persists the row as expired and does not make it borrowed.
C14_PickupOnlyValidCode ==
    /\ [][\A i \in Ids :
            (borrowings[i].status # "borrowed"
                /\ borrowings'[i].status = "borrowed")
            => \E p \in Procs :
                 /\ PickingUp(p) /\ Finishes(p)
                 /\ procs[p].bid = i
                 /\ procs'[p].result = "borrowed"
                 /\ procs[p].snap.status = "approved"
                 /\ procs[p].snap.pickup_code = procs[p].code
                 /\ ~PastPickupWindow(procs[p].snap, now)
                 /\ borrowings'[i].pickup_code = NoCode
                 /\ borrowings'[i].pickup_date = now
                 /\ borrowings'[i].due_date = (now \div 86400) + 14]_vars
    /\ [][\A p \in Procs :
            (PickingUp(p) /\ Finishes(p)
                /\ PastPickupWindow(procs[p].snap, now))
            => /\ procs'[p].result = "expired"
               /\ borrowings'[procs[p].bid].status = "expired"]_vars
    /\ [](\A i \in Ids : borrowings[i].status = "borrowed"
                            => borrowings[i].pickup_code = NoCode)

\* C15: entering the pickup code of a Borrowing whose code has expired is
\* answered 'expired' on every entry, never with the answer given for an
\* unknown code, also once the row's status is expired.
C15_ExpiredAnsweredExpired ==
    [][\A p \in Procs :
        (/\ procs'[p] # procs[p]
         /\ procs'[p].op = "pickup"
         /\ procs'[p].result = "invalid_code")
        => ~\E i \in Ids :
               /\ borrowings[i].pickup_code = procs'[p].code
               /\ PastPickupWindow(borrowings[i], now)]_vars

----------------------------------------------------------------------------
(* The session record and the timeout resolution: properties *)

\* C16: after an explicit logout of a session that has a session record,
\* the record's is_active is false.
C16_LogoutDeactivatesRecord ==
    (sresp.op = "logout" /\ sresp.served /\ rows[sresp.sk].exists)
    => ~rows[sresp.sk].is_active

\* the role's timeout when nothing is configured, as specified
RoleDefaultTimeout(rl) == IF rl \in {"manager", "admin"} THEN 30 ELSE 15

\* the table answers and holds a number under the role's own key
RoleConfigured(rl) ==
    /\ settings.up
    /\ RoleKey(rl) \in DOMAIN settings.rows
    /\ settings.rows[RoleKey(rl)] # NoSetting
    /\ IsFloat(settings.rows[RoleKey(rl)].s)

\* the table answers and holds no row
NothingConfigured ==
    settings.up /\ \A k \in SettingKeys : settings.rows[k] = NoSetting

\* C17: the timeout of a request is the timeout_minutes of the session's
\* record if there is one; otherwise the value configured for the role;
\* when nothing is configured, 15 minutes for member and librarian and 30
\* minutes for manager and admin.
C17_TimeoutResolutionOrder ==
    cresp.op = "get_user_timeout"
    => /\ cresp.row.exists => cresp.ret.i = cresp.row.timeout_minutes
       /\ (~cresp.row.exists /\ RoleConfigured(cresp.rl))
            => cresp.ret.i =
                 TenthsOf(settings.rows[RoleKey(cresp.rl)].s) \div 10
       /\ (~cresp.row.exists /\ NothingConfigured)
            => cresp.ret.i = RoleDefaultTimeout(cresp.rl)

\* a value the conversion to type cannot use: null, or a string (the empty
\* one included) that is no number (number, decimal) or no JSON document
\* (json)
Unconvertible(value, type) ==
    \/ value.kind = "none"
    \/ type \in {"number", "decimal"} /\ ~IsFloat(value.s)
    \/ type = "json" /\ ~IsFloat(value.s) /\ value.s # "true"

\* C18: get_setting returns the caller's default when the setting is
\* missing, when the table raises and when the stored value cannot be
\* converted to the requested type, an empty or null value included; and
\* the timeout resolution then falls through to its next tier.
C18_ReadsFallBackToDefault ==
    /\ cresp.op = "get_setting"
         => ((\/ ~settings.up
              \/ cresp.key \notin DOMAIN settings.rows
              \/ settings.rows[cresp.key] = NoSetting
              \/ Unconvertible(settings.rows[cresp.key], cresp.type))
             => cresp.ret = cresp.default)
    /\ cresp.op = "convert_value"
         => (Unconvertible(cresp.value, cresp.type)
             => cresp.ret = cresp.default)
    /\ (cresp.op = "get_user_timeout" /\ ~cresp.row.exists
            /\ ~RoleConfigured(cresp.rl))
         => cresp.ret.i =
              IF /\ settings.up
                 /\ settings.rows["session_timeout_minutes"] # NoSetting
                 /\ IsFloat(settings.rows["session_timeout_minutes"].s)
              THEN TenthsOf(settings.rows["session_timeout_minutes"].s)
                     \div 10
              ELSE DEFAULT_SESSION_TIMEOUT

\* C19: should_show_warning is true exactly when failed_login_attempts has
\* reached WARNING_THRESHOLD and the account is not locked: false for a
\* locked account, false below the threshold.
C19_WarnOnlyUnlockedAtThreshold ==
    \A u \in AuthUsers :
        ShouldShowWarning(users[u])
            <=> (/\ users[u].failed_login_attempts >= WARNING_THRESHOLD
                 /\ ~Locked(u))

----------------------------------------------------------------------------
(* The password policy: properties *)

\* the call recorded in presp saw a password whose change is due
ChangeDue == \/ presp.usr.password_change_required
             \/ IsPasswordExpired(presp.usr, presp.t)

\* the call recorded in presp was made by an admin less than a minute
\* after the login time its session records
InAdminGrace ==
    /\ presp.usr.role = "admin"
    /\ presp.sessn.admin_login_time.present
    /\ presp.t < presp.sessn.admin_login_time.date_time + 60

\* C20: should_force_password_change(request) is (password_change_required
\* or is_password_expired), except that an admin whose session records a
\* login time is not forced until 60 seconds after it; no other role has
\* the delay, whatever its session holds, and the middleware redirects a
\* checked request exactly when the change is forced.
C20_ForceChangeWithAdminGrace ==
    (presp.op \in {"request", "should_force"} /\ presp.url = "other"
        /\ presp.out.checked)
    => /\ presp.out.force <=> (ChangeDue /\ ~InAdminGrace)
       /\ presp.op = "request" => (presp.out.redirect <=> presp.out.force)

\* an admin's request within the minute after login, with the change due,
\* is passed on to the view
C20_Witness ==
    /\ presp.op = "request" /\ presp.out.checked
    /\ ChangeDue /\ InAdminGrace
    /\ ~presp.out.redirect

\* C21: the password policy applies only to manager and admin: for a
\* member or a librarian should_force_password_change is false and the
\* middleware never answers with the redirect to change_password.
C21_PolicyOnlyForElevatedRoles ==
    (presp.op \in {"request", "should_force"}
        /\ presp.usr.role \in {"member", "librarian"})
    => (~presp.out.force /\ ~presp.out.redirect)

\* C22: is_password_expired is false for a member and for a librarian;
\* for a manager and for an admin it is true exactly when
\* last_password_change is unset or lies more than 180 days back.
C22_ExpiredAfter180Days ==
    presp.op = "is_password_expired"
    => (presp.out.ret
          <=> (/\ presp.usr.role \in {"manager", "admin"}
               /\ \/ presp.usr.last_password_change = None
                  \/ presp.t - presp.usr.last_password_change
                        > 180 * 86400))

\* a manager's password set more than 180 days ago is found expired
C22_Witness ==
    /\ presp.op = "is_password_expired"
    /\ presp.usr.role = "manager"
    /\ presp.usr.last_password_change # None
    /\ presp.t - presp.usr.last_password_change > 180 * 86400
    /\ presp.out.ret

----------------------------------------------------------------------------
(* Returns, fines and extensions: properties *)

\* C23: process_book_return on a borrowed or overdue Borrowing sets status
\* returned and return_date = today, and then the Borrowing has an overdue
\* Fine with days_overdue = today - due_date and the amount of
\* calculate_overdue_fine exactly if today > due_date; under every
\* interleaving of return requests a Borrowing has at most one overdue
\* Fine; a return request on any other Borrowing changes nothing.
C23_ReturnAndSingleFine ==
    /\ [](\A i \in Ids : Cardinality(OverdueFines(i)) <= 1)
    /\ [][\A p \in Procs :
            (Finishes(p) /\ procs'[p].op = "return")
            => LET bid == procs'[p].bid
                   today == procs[p].snap.return_date
                   due == procs[p].snap.due_date
               IN  IF procs'[p].result = "not_borrowed"
                   THEN /\ borrowings[bid].status
                             \notin {"borrowed", "overdue"}
                        /\ borrowings' = borrowings
                        /\ fines' = fines
                   ELSE /\ borrowings'[bid].status = "returned"
                        /\ borrowings'[bid].return_date = today
                        /\ (today > due)
                             <=> \E k \in DOMAIN fines' :
                                    fines'[k] = NewFine(bid,
                                        CalculateOverdueFine(settings,
                                                             today - due),
                                        today - due)]_vars

\* no tier is configured: the table does not answer, or holds no row
\* under any of the fine keys
DefaultTiers ==
    \/ ~settings.up
    \/ \A k \in FineKeys \cap DOMAIN settings.rows :
            settings.rows[k] = NoSetting

\* 2.00 a day for the first 3 days, 5.00 a day up to the 7th, 10.00 a day
\* after it, in tenths of MVR
TieredFine(d) ==
    IF d <= 0 THEN 0
    ELSE 20 * (IF d < 3 THEN d ELSE 3)
         + 50 * (IF d <= 3 THEN 0 ELSE IF d < 7 THEN d - 3 ELSE 4)
         + 100 * (IF d <= 7 THEN 0 ELSE d - 7)

\* C24: with the default tiers calculate_overdue_fine(d) is 0 for d <= 0
\* and otherwise 2*min(d,3) + 5*max(0, min(d,7) - 3) + 10*max(0, d - 7),
\* so 0, 6.00, 26.00 and 56.00 at 0, 3, 7 and 10 days; the call reads no
\* Borrowing and writes nothing.
C24_TieredOverdueFine ==
    /\ []((cresp.op = "calculate_overdue_fine" /\ DefaultTiers)
            => /\ cresp.ret = PyDecimal(TieredFine(cresp.value.i))
               /\ cresp.value.i = 0 => cresp.ret.i = 0
               /\ cresp.value.i = 3 => cresp.ret.i = 60
               /\ cresp.value.i = 7 => cresp.ret.i = 260
               /\ cresp.value.i = 10 => cresp.ret.i = 560)
    /\ [][cresp'.op = "calculate_overdue_fine"
            => UNCHANGED <<settings, borrowVars, loanVars>>]_vars

\* ten days overdue with the default tiers are billed 56.00
C24_Witness ==
    /\ cresp.op = "calculate_overdue_fine" /\ DefaultTiers
    /\ cresp.value.i = 10
    /\ cresp.ret.i = 560

C26_ExtendedOnceWhileBorrowed ==
    /\ [](\A i \in Ids : Cardinality(ExtensionsOf(i)) <= 1)
    /\ [][\A i \in Ids :
            /\ borrowings'[i].due_date # borrowings[i].due_date
                 => /\ borrowings'[i].due_date = borrowings[i].due_date + 7
                    /\ borrowings[i].status = "borrowed"
                    /\ ~borrowings[i].is_extended
                    /\ borrowings'[i].is_extended
            /\ borrowings[i].is_extended => borrowings'[i].is_extended]_vars
    /\ [][\A p \in Procs :
            (procs[p].op = "approve_extension"
                /\ (borrowings' # borrowings \/ extensions' # extensions))
            => extensions[procs[p].eid].status = "pending"]_vars

----------------------------------------------------------------------------
(* Lock administration: properties *)

\* a step of unlock_accounts
UnlockAccountsStep == resp'.op = "unlock_accounts"

----------------------------------------------------------------------------
(* Audit records: properties *)

\* C28: a failing audit write does not abort the operation: a valid POST to
\* change_password marks the password changed, drops the admin's
\* admin_login_time from the session and answers with the redirect of a
\* changed password, whether or not the audit record could be written.
C28_AuditFailureNeverAborts ==
    [][presp'.op = "change_password" =>
        /\ account' = MarkPasswordChanged(account, now)
        /\ psession' = IF account.role = "admin"
                       THEN [psession EXCEPT !.admin_login_time = NoLoginTime]
                       ELSE psession
        /\ presp'.out.redirect
        /\ presp'.out.msg = "password_changed"]_vars

\* how many records of one action a request wrote
AuditCount(audits, action) ==
    Cardinality({i \in DOMAIN audits : audits[i] = action})

\* C29: each security-relevant transition of a login attempt writes exactly
\* one audit record: a login that succeeds one LOGIN_SUCCESS, an attempt
\* that is refused for its credentials one LOGIN_FAILED, an attempt that
\* locks the account one ACCOUNT_LOCKED.
C29_OneAuditRecordPerTransition ==
    [][resp'.op = "login_view" =>
        \A u \in AuthUsers : resp'.u = u =>
            /\ resp'.ret =>
                 AuditCount(LoginViewAudits(users[u], role[u], backends,
                                            resp'.pw, now),
                            "LOGIN_SUCCESS") = 1
            /\ (~resp'.ret /\ resp'.msg # "locked") =>
                 AuditCount(LoginViewAudits(users[u], role[u], backends,
                                            resp'.pw, now),
                            "LOGIN_FAILED") = 1
            /\ (resp'.pre # "locked"
                    /\ LockState(users'[u], now) = "locked") =>
                 AuditCount(LoginViewAudits(users[u], role[u], backends,
                                            resp'.pw, now),
                            "ACCOUNT_LOCKED") = 1]_vars

----------------------------------------------------------------------------
(* Failing saves: properties *)

\* C30: when a save of the lockout state raises during a login attempt
\* (the lazy unlock, the failed attempt or the reset on success), the
\* attempt does not log the user in: it ends in the error answer.
C30_FailedSaveDeniesLogin ==
    [][(resp'.op = "login_view" /\ resp'.raised) =>
          ~resp'.ret /\ resp'.msg = "server_error"]_vars

\* C30, witness: the right password on an expired lock, the lazy unlock was
\* saved and the save of reset_lock_status raised; nobody is logged in
C30_Witness ==
    /\ resp.op = "login_view"
    /\ resp.raised
    /\ resp.pw
    /\ resp.pre = "expired"
    /\ resp.failAt = 2
    /\ ~resp.ret
    /\ users[resp.u].account_locked_until = None

----------------------------------------------------------------------------
(* The answers of login_view on a locked account: properties *)

\* C31: a login attempt that ends on a locked account is answered with the
\* same message whether this attempt set the lock or an earlier one did:
\* for every remaining lock time the message is the one of an account found
\* locked.
C31_LockMessageHidesWhichAttempt ==
    [][resp'.op = "login_view" =>
        \A u \in AuthUsers :
            (resp'.u = u
               /\ LoginViewOutcome(users[u], role[u], backends, resp'.pw,
                                   now).remaining > 0)
            => resp'.msg = "locked"]_vars

----------------------------------------------------------------------------
(* The lifecycle of a Borrowing: properties *)

\* the changes of the persisted status the workflow is meant to make
AllowedTransitions ==
    {<<"pending", "approved">>, <<"pending", "rejected">>,
     <<"pending", "deleted">>, <<"approved", "borrowed">>,
     <<"approved", "expired">>, <<"borrowed", "returned">>,
     <<"overdue", "returned">>}

\* C32: every change of a Borrowing's persisted status is one of the
\* allowed transitions (rejected, expired and returned are terminal, and
\* status overdue is never written), and the history page shows overdue
\* exactly for a borrowed loan whose due date is before today.
C32_StatusLifecycle ==
    /\ [][\A i \in Ids :
            borrowings'[i].status # borrowings[i].status =>
                <<borrowings[i].status, borrowings'[i].status>>
                    \in AllowedTransitions]_vars
    /\ [](\A i \in Ids :
            (CalculatedStatus(borrowings[i], Date(now)) = "overdue")
            <=> (borrowings[i].status = "borrowed"
                 /\ Date(now) > borrowings[i].due_date))

----------------------------------------------------------------------------
(* The expiry sweeps: properties *)

\* C33: cleanup_expired_codes sets to expired exactly the approved
\* Borrowings for which is_code_expired is true and reports their number;
\* expire_reservations sets to expired exactly the confirmed Reservations
\* older than the timeout and, as a dry run, changes nothing; right
\* after a sweep its query finds nothing, so that a second run at the same
\* moment changes nothing and reports 0.
C33_SweepsExactAndIdempotent ==
    /\ [][sweep'.op = "cleanup_expired_codes" /\ sweep' # sweep =>
            /\ \A i \in Ids :
                 borrowings'[i] =
                    IF borrowings[i].status = "approved"
                       /\ IsCodeExpired(borrowings[i], now)
                    THEN [borrowings[i] EXCEPT !.status = "expired"]
                    ELSE borrowings[i]
            /\ sweep'.count =
                 Cardinality({i \in Ids :
                                /\ borrowings[i].status = "approved"
                                /\ IsCodeExpired(borrowings[i], now)})
            /\ reservations' = reservations]_vars
    /\ [][sweep'.op = "expire_reservations" /\ sweep' # sweep =>
            /\ \A i \in DOMAIN reservations :
                 reservations'[i] =
                    IF ~sweep'.dry_run
                       /\ reservations[i].status = "confirmed"
                       /\ now - reservations[i].created_at
                            > Hours(sweep'.hours)
                    THEN [reservations[i] EXCEPT !.status = "expired"]
                    ELSE reservations[i]
            /\ borrowings' = borrowings]_vars
    /\ [][(sweep' # sweep /\ ~sweep'.dry_run) =>
            /\ sweep'.op = "cleanup_expired_codes"
                 => StaleCodes(borrowings', now') = {}
            /\ sweep'.op = "expire_reservations"
                 => StaleReservations(reservations', now', sweep'.hours)
                        = {}]_vars

\* C33, witness: a sweep has just expired a code one second after its
\* third day ended
C33_Witness ==
    /\ sweep.op = "cleanup_expired_codes"
    /\ sweep.count = 1
    /\ \E i \in Ids : /\ borrowings[i].status = "expired"
                      /\ now = borrowings[i].approved_date
                                 + Days(PICKUP_CODE_DAYS) + 1

----------------------------------------------------------------------------
(* A session after a timed-out session of the same user: properties *)

\* C34: the verdict of a request is taken from its own session: it is
\* TimedOut exactly when the session's own last_activity is older than its
\* timeout, so a session that has no activity of its own yet (the first
\* request after a login, however soon after another session of the user
\* timed out) is Valid, served and not redirected.
C34_NewSessionNotTimedOut ==
    [][\A sk \in SessionKeys :
        (sresp'.op = "request" /\ sresp'.sk = sk)
        => /\ sresp'.verdict = "TimedOut"
                <=> Expired(sess[sk], GetUserTimeout(rows[sk], SessRole),
                            now)
           /\ sess[sk].last_activity = None
                => /\ sresp'.verdict = "Valid"
                   /\ sresp'.served
                   /\ ~sresp'.redirect]_vars

----------------------------------------------------------------------------
(* The password policy decided on the current state: properties *)

\* C35: every request through the password policy middleware is decided on
\* the account and session as they are at the request: a request to an
\* exempt URL is never redirected; a non-exempt request of a logged-in user
\* whose password change is required or whose password has expired, outside
\* the admin grace window, is redirected to change_password; and the
\* non-exempt request that follows a change_password is not redirected.
C35_PolicyDecidedOnCurrentState ==
    /\ [](presp.op = "request" /\ presp.url = "exempt"
            => ~presp.out.redirect)
    /\ [](presp.op = "request" /\ presp.url = "other"
            /\ presp.sessn.logged_in
            /\ ShouldForcePasswordChange(presp.usr, TRUE, presp.sessn,
                                         presp.t)
            => presp.out.redirect)
    /\ [][presp.op = "change_password" /\ presp'.op = "request"
            /\ presp'.url = "other"
            => ~presp'.out.redirect]_vars

----------------------------------------------------------------------------
(* Concurrent failed logins: properties *)

\* C36: whatever the interleaving of login_view requests on an account of
\* an affected role, failed_login_attempts equals the number of wrong
\* passwords evaluated since the counter was last reset, and that number
\* never exceeds MAX_FAILED_ATTEMPTS.
C36_CounterCountsEveryFailure ==
    \A u \in AuthUsers :
        role[u] \in AFFECTED_USER_ROLES
        => /\ users[u].failed_login_attempts = evaluated[u]
           /\ evaluated[u] <= MAX_FAILED_ATTEMPTS

----------------------------------------------------------------------------
(* The timeouts an admin can set: properties *)

\* C37: whatever an admin stores through system_settings or
\* session_management, every timeout the middleware applies to a session
\* (the UserSession row's, else the configured one, and the one the
\* optimized middleware holds in its cache) is a positive number of
\* minutes.
C37_AppliedTimeoutPositive ==
    /\ \A sk \in SessionKeys : GetUserTimeout(rows[sk], SessRole) > 0
    /\ CacheHit(cache.user_timeout, now) => cache.user_timeout.val > 0

----------------------------------------------------------------------------
(* get_setting and its cache: properties *)

\* C38: get_setting never answers with a value older than the last change
\* of the setting: while the cache entry of the key is alive it holds the
\* value the store holds, so a read served from the cache returns the
\* stored value, and after a save, a delete or invalidate_cache(key) no
\* entry is left and the next read returns what the store holds.
C38_CacheNeverStale ==
    CacheHit(scache, now) => scache.val = settings.rows[PostedKey]

====
